---------------------------- MODULE Spec2Model ----------------------------
(***************************************************************************)
(* A model of the Dolphin RV64 emulator: processor state, memory bus,      *)
(* decoder, the RV64I instruction handlers, the execution loop             *)
(* (step_internal / step / steps) and the GDB remote adapter.              *)
(*                                                                         *)
(* Machine words are kept at their real width.  TLC's integers are 32-bit, *)
(* so a u64 is a tuple of four 16-bit limbs (least significant first) and  *)
(* a u32 a tuple of two; bytes are integers 0..255.                        *)
(***************************************************************************)
EXTENDS Integers, Sequences, FiniteSets, TLC

VARIABLES
    registers,      \* State.registers : [u64; 32]
    pc,             \* State.pc
    npc,            \* State.npc
    data,           \* Memory.data : RAM bytes, indexed by offset from memory_base
    mmio_regions,   \* Memory.mmio_regions
    is_last_mmio,   \* Memory.is_last_mmio
    exec_state,     \* Emulator.exec_state
    exec_mode,      \* Emulator.exec_mode
    event,          \* Emulator.event
    execption,      \* Emulator.execption (the pending-exception slot; sic)
    event_list,     \* Emulator.event_list : RingBuffer<Event>
    breakpoints,    \* GdbData.breakpoints
    watchpoints,    \* GdbData.watchpoints
    cache_capacity, \* InstDecoder.cache.capacity()
    cache,          \* InstDecoder.cache : the instruction words cached
    config,         \* InstDecoder.config : InstDecoderArgs
    ref_emu,        \* Emulator.ref_emu : the reference model of the difftest feature
    gdb,            \* position of the GDB event loop and wait_for_stop_reason's locals
    stop,           \* the stop reason the last call returned, if it returned one
    call            \* the last API call: its arguments, result and what it executed

vars == <<registers, pc, npc, data, mmio_regions, is_last_mmio, exec_state,
          exec_mode, event, execption, event_list, breakpoints, watchpoints,
          cache_capacity, cache, config, ref_emu, gdb, stop, call>>

---------------------------------------------------------------------------
(* Bounds of the model *)

\* RAM holds 2^MemSizeLog2 bytes (the code takes MiB; the size is a power of two)
MemSizeLog2 == 5
\* steps(n) is called with n in 0..MaxSteps
MaxSteps == 3
\* capacity of the event ring (debug.event_list_size)
EventListSize == 2

---------------------------------------------------------------------------
(* Fixed-width unsigned integers *)

\* a natural below 2^31 as a u64
U64(n) == <<n % 65536, (n \div 65536) % 65536, 0, 0>>
\* a natural below 2^31 as a u32
U32(n) == <<n % 65536, (n \div 65536) % 65536>>
\* value `as u64` of a u32
AsU64(w) == <<w[1], w[2], 0, 0>>
\* a u64 known to be below 2^31, as a natural (`as usize` of small values)
ToNat(v) == v[1] + 65536 * v[2]
FitsNat(v) == v[2] < 32768 /\ v[3] = 0 /\ v[4] = 0

Zero64 == <<0, 0, 0, 0>>
Max64 == <<65535, 65535, 65535, 65535>>

\* bit i of a word, as 0 or 1
Bit(v, i) == (v[(i \div 16) + 1] \div (2 ^ (i % 16))) % 2

RECURSIVE LimbOfBits(_, _, _)
LimbOfBits(f, base, j) ==
    IF j = 16 THEN 0 ELSE f[base + j] * (2 ^ j) + LimbOfBits(f, base, j + 1)

\* the u64 whose bit i is f[i]
FromBits(f) ==
    <<LimbOfBits(f, 0, 0), LimbOfBits(f, 16, 0), LimbOfBits(f, 32, 0),
      LimbOfBits(f, 48, 0)>>

RECURSIVE AddLimbs(_, _, _, _)
AddLimbs(a, b, k, carry) ==
    IF k > Len(a) THEN <<carry>>
    ELSE LET s == a[k] + b[k] + carry
         IN  <<s % 65536>> \o AddLimbs(a, b, k + 1, s \div 65536)

\* u64::wrapping_add
wrapping_add(a, b) == SubSeq(AddLimbs(a, b, 1, 0), 1, Len(a))
\* the carry out of a + b
AddOverflows(a, b) == AddLimbs(a, b, 1, 0)[Len(a) + 1] = 1
\* u64::saturating_add
saturating_add(a, b) == IF AddOverflows(a, b) THEN Max64 ELSE wrapping_add(a, b)
\* !x
Not64(a) == <<65535 - a[1], 65535 - a[2], 65535 - a[3], 65535 - a[4]>>
\* u64::wrapping_sub
wrapping_sub(a, b) == SubSeq(AddLimbs(a, Not64(b), 1, 1), 1, Len(a))

RECURSIVE LtFrom(_, _, _)
LtFrom(a, b, k) ==
    IF k = 0 THEN FALSE
    ELSE IF a[k] # b[k] THEN a[k] < b[k]
    ELSE LtFrom(a, b, k - 1)

\* a < b on u64
LtU(a, b) == LtFrom(a, b, Len(a))
LeU(a, b) == ~LtU(b, a)
\* (a as i64) < (b as i64)
LtS(a, b) ==
    IF Bit(a, 63) # Bit(b, 63) THEN Bit(a, 63) = 1 ELSE LtU(a, b)

And64(a, b) == FromBits([i \in 0..63 |-> Bit(a, i) * Bit(b, i)])
Or64(a, b) ==
    FromBits([i \in 0..63 |-> IF Bit(a, i) + Bit(b, i) > 0 THEN 1 ELSE 0])
Xor64(a, b) == FromBits([i \in 0..63 |-> (Bit(a, i) + Bit(b, i)) % 2])
\* a << s, a >> s (logical) and (a as i64) >> s for 0 <= s <= 63
Shl64(a, s) == FromBits([i \in 0..63 |-> IF i >= s THEN Bit(a, i - s) ELSE 0])
Shr64(a, s) == FromBits([i \in 0..63 |-> IF i + s <= 63 THEN Bit(a, i + s) ELSE 0])
Sar64(a, s) ==
    FromBits([i \in 0..63 |-> IF i + s <= 63 THEN Bit(a, i + s) ELSE Bit(a, 63)])

\* (w & m) == id on u32
MaskMatches(w, m, id) ==
    \A i \in 0..31 : Bit(m, i) = 1 => Bit(w, i) = Bit(id, i)

\* BitSlice::bit_range for u32 (start..end, end-exclusive), as u64
bit_range(w, start, end) ==
    IF start = end THEN Zero64
    ELSE FromBits([i \in 0..63 |-> IF i + start < end THEN Bit(w, i + start) ELSE 0])

\* BitSlice::bit_range for u64
bit_range64(v, start, end) ==
    IF start = end THEN Zero64
    ELSE FromBits([i \in 0..63 |-> IF i + start < end THEN Bit(v, i + start) ELSE 0])

\* BitSlice::bit for u32, `as u64`
bit(w, pos) == U64(Bit(w, pos))

\* sign_extend_64: shift left, then arithmetic shift right
sign_extend_64(value, num_bits) ==
    Sar64(Shl64(value, 64 - num_bits), 64 - num_bits)

\* -a on u64 (wrapping_neg)
Neg64(a) == wrapping_sub(Zero64, a)

\* u64::wrapping_mul: the sum of a << i over the set bits i of b; MulFrom adds
\* the terms of the bits i..last
RECURSIVE MulFrom(_, _, _, _, _)
MulFrom(a, b, i, last, acc) ==
    IF i > last \/ acc = <<>> THEN acc
    ELSE IF Bit(b, i) = 0 THEN MulFrom(a, b, i + 1, last, acc)
    ELSE MulFrom(a, b, i + 1, last, wrapping_add(acc, Shl64(a, i)))

wrapping_mul(a, b) ==
    MulFrom(a, b, 48, 63, MulFrom(a, b, 32, 47,
        MulFrom(a, b, 16, 31, MulFrom(a, b, 0, 15, Zero64))))

\* bits 64..127 of the u128 product a * b: the sum of (a << i) >> 64 over the
\* set bits i of b, with the carries out of the low half; MulHighFrom adds the
\* terms of the bits i..last to the sum s = [lo, hi]
RECURSIVE MulHighFrom(_, _, _, _, _)
MulHighFrom(a, b, i, last, s) ==
    IF i > last \/ s.hi = <<>> THEN s
    ELSE IF Bit(b, i) = 0 THEN MulHighFrom(a, b, i + 1, last, s)
    ELSE MulHighFrom(a, b, i + 1, last,
                     [lo |-> wrapping_add(s.lo, Shl64(a, i)),
                      hi |-> wrapping_add(wrapping_add(s.hi, Shr64(a, 64 - i)),
                                          IF AddOverflows(s.lo, Shl64(a, i))
                                          THEN U64(1) ELSE Zero64)])

MulHighU(a, b) ==
    MulHighFrom(a, b, 48, 63, MulHighFrom(a, b, 32, 47,
        MulHighFrom(a, b, 16, 31,
            MulHighFrom(a, b, 0, 15, [lo |-> Zero64, hi |-> Zero64])))).hi

\* bits 64..127 of the i128 product of a and b, each read as signed when its
\* flag says so
MulHigh(a, a_signed, b, b_signed) ==
    wrapping_sub(wrapping_sub(MulHighU(a, b),
                              IF a_signed /\ Bit(a, 63) = 1 THEN b ELSE Zero64),
                 IF b_signed /\ Bit(b, 63) = 1 THEN a ELSE Zero64)

\* u64 division with remainder, one bit of the dividend per round: the rounds
\* of the bits i down to last, from the quotient and remainder s = [q, r];
\* DivRemShifted is the round after the remainder was shifted
RECURSIVE DivRemFrom(_, _, _, _, _)
RECURSIVE DivRemShifted(_, _, _, _, _, _, _)
DivRemShifted(a, b, i, last, q, carry, shifted) ==
    IF carry = 1 \/ ~LtU(shifted, b)
    THEN DivRemFrom(a, b, i - 1, last,
                    [q |-> [q EXCEPT ![(i \div 16) + 1] = @ + 2 ^ (i % 16)],
                     r |-> wrapping_sub(shifted, b)])
    ELSE DivRemFrom(a, b, i - 1, last, [q |-> q, r |-> shifted])

DivRemFrom(a, b, i, last, s) ==
    IF i < last THEN s
    ELSE DivRemShifted(a, b, i, last, s.q, Bit(s.r, 63),
                       wrapping_add(wrapping_add(s.r, s.r), U64(Bit(a, i))))

DivRem(a, b) ==
    DivRemFrom(a, b, 15, 0, DivRemFrom(a, b, 31, 16,
        DivRemFrom(a, b, 47, 32,
            DivRemFrom(a, b, 63, 48, [q |-> Zero64, r |-> Zero64]))))

\* u64::wrapping_div / wrapping_rem (the divisor is not 0)
wrapping_div_u64(a, b) == DivRem(a, b).q
wrapping_rem_u64(a, b) == DivRem(a, b).r

\* |a| of an i64 as a u64 (2^63 for i64::MIN)
Abs64(a) == IF Bit(a, 63) = 1 THEN Neg64(a) ELSE a

\* i64::wrapping_div: the quotient truncated towards zero; MIN / -1 wraps to MIN
wrapping_div_i64(a, b) ==
    IF Bit(a, 63) # Bit(b, 63)
    THEN Neg64(wrapping_div_u64(Abs64(a), Abs64(b)))
    ELSE wrapping_div_u64(Abs64(a), Abs64(b))

\* i64::wrapping_rem: the remainder has the sign of the dividend; MIN % -1 is 0
wrapping_rem_i64(a, b) ==
    IF Bit(a, 63) = 1
    THEN Neg64(wrapping_rem_u64(Abs64(a), Abs64(b)))
    ELSE wrapping_rem_u64(Abs64(a), Abs64(b))

\* the first n bytes most significant first (to_be_bytes)
RECURSIVE BeBytes(_, _)
BeBytes(v, n) ==
    IF n = 0 THEN <<>>
    ELSE << (v[((n - 1) \div 2) + 1] \div (IF (n - 1) % 2 = 0 THEN 1 ELSE 256)) % 256 >>
         \o BeBytes(v, n - 1)

\* u64::to_le_bytes / u32::to_le_bytes / u16::to_le_bytes, first n bytes
RECURSIVE LeBytes(_, _)
LeBytes(v, n) ==
    IF n = 0 THEN <<>>
    ELSE LeBytes(v, n - 1)
         \o << (v[((n - 1) \div 2) + 1] \div (IF (n - 1) % 2 = 0 THEN 1 ELSE 256)) % 256 >>

\* u64::from_le_bytes of 1, 2, 4 or 8 bytes, widened to u64
ByteAt(bs, k) == IF k <= Len(bs) THEN bs[k] ELSE 0

FromLeBytes(bs) ==
    <<ByteAt(bs, 1) + 256 * ByteAt(bs, 2), ByteAt(bs, 3) + 256 * ByteAt(bs, 4),
      ByteAt(bs, 5) + 256 * ByteAt(bs, 6), ByteAt(bs, 7) + 256 * ByteAt(bs, 8)>>

---------------------------------------------------------------------------
(* Memory bus: RAM at memory_base and the MMIO regions (memory.rs)          *)
(* An emulator value `emu` is a record of the fields of Emulator, State,   *)
(* Memory and GdbData; operators take it and return the updated record.    *)

\* memory.memory_base of the device file (0x8000_0000)
memory_base == <<0, 32768, 0, 0>>
\* memory.memory_size in bytes
memory_size == 2 ^ MemSizeLog2
\* the UART window of the device file: base 0x1000_0000, size 0x100
UartRegion == [base |-> <<0, 4096, 0, 0>>, size |-> U64(256), device |-> "uart"]

\* Uart::read (tx_ready is always true and rx_buffer always None)
Uart_read(offset, size) ==
    IF offset = U64(0) THEN
        IF size # 1 THEN [ok |-> FALSE, bytes |-> <<>>]
        ELSE [ok |-> TRUE, bytes |-> <<0>>]
    ELSE IF offset = U64(4) THEN
        IF size # 4 THEN [ok |-> FALSE, bytes |-> <<>>]
        ELSE [ok |-> TRUE, bytes |-> <<1, 0, 0, 0>>]
    ELSE IF offset = U64(8) THEN
        IF size # 4 THEN [ok |-> FALSE, bytes |-> <<>>]
        ELSE [ok |-> TRUE, bytes |-> <<0, 0, 0, 0>>]
    ELSE [ok |-> FALSE, bytes |-> <<>>]

\* Uart::write (the byte goes to stderr, which the model does not keep)
Uart_write(offset, bytes) ==
    IF offset = U64(0) THEN Len(bytes) = 1
    ELSE IF offset = U64(4) THEN FALSE
    ELSE IF offset = U64(8) THEN Len(bytes) = 4
    ELSE FALSE

\* the comparator of find_mmio_region: "Greater", "Less" or "Equal"
RegionCmp(region, addr) ==
    IF LtU(addr, region.base) THEN "Greater"
    ELSE IF ~LtU(addr, wrapping_add(region.base, region.size)) THEN "Less"
    ELSE "Equal"

\* slice::binary_search_by over indices 1..Len(regions); 0 when not found
RECURSIVE BinarySearch(_, _, _, _)
BinarySearch(regions, addr, base, size) ==
    IF size > 1 THEN
        LET half == size \div 2
            mid  == base + half
        IN  BinarySearch(regions, addr,
                         IF RegionCmp(regions[mid], addr) = "Greater" THEN base ELSE mid,
                         size - half)
    ELSE IF RegionCmp(regions[base], addr) = "Equal" THEN base ELSE 0

\* Memory::find_mmio_region: index of the region found, 0 for None
find_mmio_region(regions, addr) ==
    IF Len(regions) = 0 THEN 0 ELSE BinarySearch(regions, addr, 1, Len(regions))

\* one scan step of map_mmio's loop over the regions, from index k: "None"
\* when no region overlaps [base, new_end), "Overlap" at the first that does,
\* "Panic" when region.base + region.size overflows in a build with overflow
\* checks
RECURSIVE map_mmio_scan(_, _, _, _, _)
map_mmio_scan(regions, base, new_end, k, overflow_checks) ==
    IF k > Len(regions) THEN "None"
    ELSE IF overflow_checks /\ AddOverflows(regions[k].base, regions[k].size)
    THEN "Panic"
    ELSE IF /\ LtU(base, wrapping_add(regions[k].base, regions[k].size))
            /\ LtU(regions[k].base, new_end)
    THEN "Overlap"
    ELSE map_mmio_scan(regions, base, new_end, k + 1, overflow_checks)

\* map_mmio after the loop: the check against the RAM window, then the push
map_mmio_scanned(regions, base, size, device, new_end, scanned) ==
    IF scanned = "Panic" THEN [ret |-> "Panic", addr |-> Zero64, regions |-> regions]
    ELSE IF scanned = "Overlap"
    THEN [ret |-> "MmioOverlap", addr |-> base, regions |-> regions]
    ELSE IF /\ LtU(base, wrapping_add(memory_base, U64(memory_size)))
            /\ LtU(memory_base, new_end)
    THEN [ret |-> "MmioOverlap", addr |-> base, regions |-> regions]
    ELSE [ret |-> "Ok", addr |-> Zero64,
          regions |-> Append(regions, [base |-> base, size |-> size, device |-> device])]

\* Memory::map_mmio: [ret, addr, regions].  `base + size` wraps in a build
\* without overflow checks and panics in a build with them.
map_mmio(regions, base, size, device, overflow_checks) ==
    IF overflow_checks /\ AddOverflows(base, size)
    THEN [ret |-> "Panic", addr |-> Zero64, regions |-> regions]
    ELSE map_mmio_scanned(regions, base, size, device, wrapping_add(base, size),
                          map_mmio_scan(regions, base, wrapping_add(base, size), 1,
                                        overflow_checks))

\* sort_by_key is a stable sort: r goes after every element whose key is not
\* greater than its own
RECURSIVE InsertByBase(_, _, _)
InsertByBase(sorted, r, k) ==
    IF k > Len(sorted) THEN Append(sorted, r)
    ELSE IF LtU(r.base, sorted[k].base)
    THEN SubSeq(sorted, 1, k - 1) \o <<r>> \o SubSeq(sorted, k, Len(sorted))
    ELSE InsertByBase(sorted, r, k + 1)

RECURSIVE SortByBase(_, _)
SortByBase(regions, n) ==
    IF n = 0 THEN <<>>
    ELSE InsertByBase(SortByBase(regions, n - 1), regions[n], 1)

\* Memory::sort_mmio_regions
sort_mmio_regions(regions) == SortByBase(regions, Len(regions))

\* iter().position(|r| r.base == base): the first index, 0 for None
RECURSIVE Position(_, _, _)
Position(regions, base, k) ==
    IF k > Len(regions) THEN 0
    ELSE IF regions[k].base = base THEN k
    ELSE Position(regions, base, k + 1)

\* Vec::remove(index)
Remove(regions, k) == SubSeq(regions, 1, k - 1) \o SubSeq(regions, k + 1, Len(regions))

\* unmap_mmio after the search
unmap_mmio_found(regions, k) ==
    IF k # 0 THEN [ret |-> TRUE, regions |-> Remove(regions, k)]
    ELSE [ret |-> FALSE, regions |-> regions]

\* Memory::unmap_mmio: [ret, regions]
unmap_mmio(regions, base) == unmap_mmio_found(regions, Position(regions, base, 1))

\* Memory::is_mem_region
is_mem_region(addr) ==
    /\ ~LtU(addr, memory_base)
    /\ LtU(addr, wrapping_add(memory_base, U64(memory_size)))

\* Memory::is_mem_region_range
is_mem_region_range(addr, size) ==
    /\ ~LtU(addr, memory_base)
    /\ LeU(saturating_add(addr, U64(size)), wrapping_add(memory_base, U64(memory_size)))

\* offset of a RAM address in data
real_addr(addr) == ToNat(wrapping_sub(addr, memory_base))

\* data[start .. start + size - 1] as a byte sequence
RECURSIVE Slice(_, _, _)
Slice(ram, start, size) ==
    IF size = 0 THEN <<>>
    ELSE Slice(ram, start, size - 1) \o <<ram[start + size - 1]>>

\* copy_from_slice of bytes[k..] into data at start
RECURSIVE CopyInto(_, _, _, _)
CopyInto(ram, start, bytes, k) ==
    IF k > Len(bytes) THEN ram
    ELSE CopyInto([ram EXCEPT ![start + k - 1] = bytes[k]], start, bytes, k + 1)

\* MemoryError::OutOfBounds { addr, size }, MemoryError::Device(..), and no error
OutOfBounds(addr, size) == [kind |-> "OutOfBounds", addr |-> addr, size |-> size]
DeviceError == [kind |-> "Device", addr |-> Zero64, size |-> 0]
NoError == [kind |-> "None", addr |-> Zero64, size |-> 0]

\* Memory::translate_address with alignment 1: the offset fits in data
translate_address(emu, addr, size) ==
    /\ FitsNat(wrapping_sub(addr, memory_base))
    /\ ~AddOverflows(wrapping_sub(addr, memory_base), U64(size))
    /\ real_addr(addr) + size <= memory_size

\* the range check of an access that starts in RAM: is_mem_region_range on
\* the fast paths (1, 2, 4, 8 bytes), translate_address otherwise
RamRangeOk(emu, addr, size) ==
    IF size \in {1, 2, 4, 8}
    THEN is_mem_region_range(addr, size)
    ELSE translate_address(emu, addr, size)

\* a bus result that failed with an error
BusErr(err) ==
    [ok |-> FALSE, bytes |-> <<>>, mmio |-> FALSE, err |-> err, dev |-> 0,
     offset |-> Zero64]

\* device.read(offset, size)? of the region found, and the latch
read_device(emu, idx, offset, size, res) ==
    [ok |-> res.ok, bytes |-> res.bytes, mmio |-> res.ok,
     err |-> IF res.ok THEN NoError ELSE DeviceError, dev |-> idx,
     offset |-> offset]

\* the MMIO half of a read: idx is what find_mmio_region returned
read_mmio(emu, addr, size, idx) ==
    IF idx # 0
    THEN read_device(emu, idx, wrapping_sub(addr, emu.mmio_regions[idx].base), size,
                     Uart_read(wrapping_sub(addr, emu.mmio_regions[idx].base), size))
    ELSE BusErr(OutOfBounds(addr, size))

\* Memory::read and the typed read_byte .. read_doubleword, which share its
\* shape: RAM if the first byte is in RAM (range-checked), else a device, else
\* OutOfBounds.  The result says whether is_last_mmio gets latched, which
\* region was dispatched to (dev, 0 for none) and with what offset.
read(emu, addr, size) ==
    IF is_mem_region(addr) THEN
        IF ~RamRangeOk(emu, addr, size)
        THEN BusErr(OutOfBounds(addr, size))
        ELSE [ok |-> TRUE,
              bytes |-> Slice(emu.data, real_addr(addr), size),
              mmio |-> FALSE, err |-> NoError, dev |-> 0, offset |-> Zero64]
    ELSE read_mmio(emu, addr, size, find_mmio_region(emu.mmio_regions, addr))

\* device.write(offset, data)? of the region found, and the latch
write_device(emu, idx, offset, accepted) ==
    [ok |-> accepted,
     emu |-> IF accepted THEN [emu EXCEPT !.is_last_mmio = TRUE] ELSE emu,
     err |-> IF accepted THEN NoError ELSE DeviceError, dev |-> idx,
     offset |-> offset]

\* the MMIO half of a write
write_mmio(emu, addr, bytes, idx) ==
    IF idx # 0
    THEN write_device(emu, idx, wrapping_sub(addr, emu.mmio_regions[idx].base),
                      Uart_write(wrapping_sub(addr, emu.mmio_regions[idx].base), bytes))
    ELSE [ok |-> FALSE, emu |-> emu, err |-> OutOfBounds(addr, Len(bytes)),
          dev |-> 0, offset |-> Zero64]

\* a write that copies the bytes that fit before it reports the range error
write_partial(emu, addr, bytes) ==
    IF is_mem_region(addr) THEN
        IF ~RamRangeOk(emu, addr, Len(bytes))
        THEN [ok |-> FALSE,
              emu |-> [emu EXCEPT !.data =
                          CopyInto(@, real_addr(addr),
                                   SubSeq(bytes, 1, memory_size - real_addr(addr)), 1)],
              err |-> OutOfBounds(addr, Len(bytes)), dev |-> 0, offset |-> Zero64]
        ELSE [ok |-> TRUE,
              emu |-> [emu EXCEPT !.data = CopyInto(@, real_addr(addr), bytes, 1)],
              err |-> NoError, dev |-> 0, offset |-> Zero64]
    ELSE write_mmio(emu, addr, bytes, find_mmio_region(emu.mmio_regions, addr))

\* Memory::write and the typed write_byte .. write_doubleword
write(emu, addr, bytes) ==
    IF is_mem_region(addr) THEN
        IF ~RamRangeOk(emu, addr, Len(bytes))
        THEN [ok |-> FALSE, emu |-> emu, err |-> OutOfBounds(addr, Len(bytes)),
              dev |-> 0, offset |-> Zero64]
        ELSE [ok |-> TRUE,
              emu |-> [emu EXCEPT !.data = CopyInto(@, real_addr(addr), bytes, 1)],
              err |-> NoError, dev |-> 0, offset |-> Zero64]
    ELSE write_mmio(emu, addr, bytes, find_mmio_region(emu.mmio_regions, addr))

\* the emulator after a read: only is_last_mmio can change
AfterRead(emu, res) ==
    IF res.mmio THEN [emu EXCEPT !.is_last_mmio = TRUE] ELSE emu

---------------------------------------------------------------------------
(* Processor state (state.rs) *)

\* State::get_reg: the value, or "Err" for an invalid register number
get_reg(emu, reg) ==
    IF reg >= 32 THEN "Err"
    ELSE IF reg = 0 THEN Zero64
    ELSE emu.registers[reg]

\* a set_reg that writes x0 like any other entry
set_reg_x0_writable(emu, reg, value) ==
    IF reg >= 32 THEN [ok |-> FALSE, emu |-> emu]
    ELSE [ok |-> TRUE, emu |-> [emu EXCEPT !.registers[reg] = value]]

\* State::set_reg: [ok, emu]
set_reg(emu, reg, value) ==
    IF reg >= 32 THEN [ok |-> FALSE, emu |-> emu]
    ELSE IF reg # 0
         THEN [ok |-> TRUE, emu |-> [emu EXCEPT !.registers[reg] = value]]
         ELSE [ok |-> TRUE, emu |-> emu]

\* State::get_pc
get_pc(emu) == emu.pc

\* State::set_npc
set_npc(emu, value) == [emu EXCEPT !.npc = value]

\* a sync_pc that does not commit npc
sync_pc_skipped(emu) == emu

\* State::sync_pc
sync_pc(emu) == [emu EXCEPT !.pc = emu.npc]

\* State::fetch_instruction: read_memory(pc, 4) as a little-endian u32
fetch_instruction(emu, addr) ==
    LET res == read(emu, addr, 4)
    IN  [ok |-> res.ok,
         inst |-> IF res.ok
                  THEN <<res.bytes[1] + 256 * res.bytes[2], res.bytes[3] + 256 * res.bytes[4]>>
                  ELSE <<0, 0>>,
         emu |-> AfterRead(emu, res)]

---------------------------------------------------------------------------
(* Decoder (instructions/mod.rs) *)

\* the MASK_* / MATCH_* pairs of instructions/insts.rs (riscv-opcodes encodings)
insts ==
    [lui    |-> <<U32(\h7f), U32(\h37)>>,
     auipc  |-> <<U32(\h7f), U32(\h17)>>,
     jal    |-> <<U32(\h7f), U32(\h6f)>>,
     jalr   |-> <<U32(\h707f), U32(\h67)>>,
     beq    |-> <<U32(\h707f), U32(\h63)>>,
     bne    |-> <<U32(\h707f), U32(\h1063)>>,
     blt    |-> <<U32(\h707f), U32(\h4063)>>,
     bge    |-> <<U32(\h707f), U32(\h5063)>>,
     bltu   |-> <<U32(\h707f), U32(\h6063)>>,
     bgeu   |-> <<U32(\h707f), U32(\h7063)>>,
     lb     |-> <<U32(\h707f), U32(\h03)>>,
     lh     |-> <<U32(\h707f), U32(\h1003)>>,
     lw     |-> <<U32(\h707f), U32(\h2003)>>,
     lbu    |-> <<U32(\h707f), U32(\h4003)>>,
     lhu    |-> <<U32(\h707f), U32(\h5003)>>,
     sb     |-> <<U32(\h707f), U32(\h23)>>,
     sh     |-> <<U32(\h707f), U32(\h1023)>>,
     sw     |-> <<U32(\h707f), U32(\h2023)>>,
     addi   |-> <<U32(\h707f), U32(\h13)>>,
     slti   |-> <<U32(\h707f), U32(\h2013)>>,
     sltiu  |-> <<U32(\h707f), U32(\h3013)>>,
     xori   |-> <<U32(\h707f), U32(\h4013)>>,
     ori    |-> <<U32(\h707f), U32(\h6013)>>,
     andi   |-> <<U32(\h707f), U32(\h7013)>>,
     slli   |-> <<<<\h707f, \hfc00>>, U32(\h1013)>>,
     srli   |-> <<<<\h707f, \hfc00>>, U32(\h5013)>>,
     srai   |-> <<<<\h707f, \hfc00>>, <<\h5013, \h4000>>>>,
     add    |-> <<<<\h707f, \hfe00>>, U32(\h33)>>,
     sub    |-> <<<<\h707f, \hfe00>>, <<\h0033, \h4000>>>>,
     sll    |-> <<<<\h707f, \hfe00>>, U32(\h1033)>>,
     slt    |-> <<<<\h707f, \hfe00>>, U32(\h2033)>>,
     sltu   |-> <<<<\h707f, \hfe00>>, U32(\h3033)>>,
     xor    |-> <<<<\h707f, \hfe00>>, U32(\h4033)>>,
     srl    |-> <<<<\h707f, \hfe00>>, U32(\h5033)>>,
     sra    |-> <<<<\h707f, \hfe00>>, <<\h5033, \h4000>>>>,
     or     |-> <<<<\h707f, \hfe00>>, U32(\h6033)>>,
     and    |-> <<<<\h707f, \hfe00>>, U32(\h7033)>>,
     fence  |-> <<U32(\h707f), U32(\h0f)>>,
     ecall  |-> <<<<\hffff, \hffff>>, U32(\h73)>>,
     ebreak |-> <<<<\hffff, \hffff>>, <<\h0073, \h0010>>>>,
     addiw  |-> <<U32(\h707f), U32(\h1b)>>,
     slliw  |-> <<<<\h707f, \hfe00>>, U32(\h101b)>>,
     srliw  |-> <<<<\h707f, \hfe00>>, U32(\h501b)>>,
     sraiw  |-> <<<<\h707f, \hfe00>>, <<\h501b, \h4000>>>>,
     addw   |-> <<<<\h707f, \hfe00>>, U32(\h3b)>>,
     subw   |-> <<<<\h707f, \hfe00>>, <<\h003b, \h4000>>>>,
     sllw   |-> <<<<\h707f, \hfe00>>, U32(\h103b)>>,
     srlw   |-> <<<<\h707f, \hfe00>>, U32(\h503b)>>,
     sraw   |-> <<<<\h707f, \hfe00>>, <<\h503b, \h4000>>>>,
     ld     |-> <<U32(\h707f), U32(\h3003)>>,
     lwu    |-> <<U32(\h707f), U32(\h6003)>>,
     sd     |-> <<U32(\h707f), U32(\h3023)>>,
     mul    |-> <<<<\h707f, \hfe00>>, <<\h0033, \h0200>>>>,
     mulh   |-> <<<<\h707f, \hfe00>>, <<\h1033, \h0200>>>>,
     mulhsu |-> <<<<\h707f, \hfe00>>, <<\h2033, \h0200>>>>,
     mulhu  |-> <<<<\h707f, \hfe00>>, <<\h3033, \h0200>>>>,
     div    |-> <<<<\h707f, \hfe00>>, <<\h4033, \h0200>>>>,
     divu   |-> <<<<\h707f, \hfe00>>, <<\h5033, \h0200>>>>,
     rem    |-> <<<<\h707f, \hfe00>>, <<\h6033, \h0200>>>>,
     remu   |-> <<<<\h707f, \hfe00>>, <<\h7033, \h0200>>>>,
     mulw   |-> <<<<\h707f, \hfe00>>, <<\h003b, \h0200>>>>,
     divw   |-> <<<<\h707f, \hfe00>>, <<\h403b, \h0200>>>>,
     divuw  |-> <<<<\h707f, \hfe00>>, <<\h503b, \h0200>>>>,
     remw   |-> <<<<\h707f, \hfe00>>, <<\h603b, \h0200>>>>,
     remuw  |-> <<<<\h707f, \hfe00>>, <<\h703b, \h0200>>>>]

\* the names of rv64i::RV_I in table order
RV_I_names ==
    <<"lui", "auipc", "jal", "jalr", "beq", "bne", "blt", "bge", "bltu", "bgeu",
      "lb", "lh", "lw", "lbu", "lhu", "sb", "sh", "sw",
      "addi", "slti", "sltiu", "xori", "ori", "andi", "slli", "srli", "srai",
      "add", "sub", "sll", "slt", "sltu", "xor", "srl", "sra", "or", "and",
      "fence", "ecall", "ebreak",
      "addiw", "slliw", "srliw", "sraiw", "addw", "subw", "sllw", "srlw", "sraw",
      "ld", "lwu", "sd">>

\* rv64i::RV_I: the Instruction descriptors {mask, identifier, name}
RV_I ==
    [k \in 1..Len(RV_I_names) |->
        [mask |-> insts[RV_I_names[k]][1],
         identifier |-> insts[RV_I_names[k]][2],
         name |-> RV_I_names[k]]]

\* the names of rv64m::RV_M in table order
RV_M_names ==
    <<"mul", "mulh", "mulhsu", "mulhu", "div", "divu", "rem", "remu",
      "mulw", "divw", "divuw", "remw", "remuw">>

\* rv64m::RV_M
RV_M ==
    [k \in 1..Len(RV_M_names) |->
        [mask |-> insts[RV_M_names[k]][1],
         identifier |-> insts[RV_M_names[k]][2],
         name |-> RV_M_names[k]]]

\* rv64a::RV_A: one descriptor, with the mask and identifier of MUL
RV_A == <<[mask |-> insts["mul"][1], identifier |-> insts["mul"][2], name |-> "todo!"]>>

\* InstDecoderArgs
InstDecoderArgs(enable_m, enable_a, enable_c) ==
    [enable_m |-> enable_m, enable_a |-> enable_a, enable_c |-> enable_c]

\* InstDecoder.instructions_set as InstDecoder::new builds it from the args
instructions_set(args) ==
    RV_I \o (IF args.enable_m THEN RV_M ELSE <<>>)
         \o (IF args.enable_a THEN RV_A ELSE <<>>)

\* InstDecoder.compressed_instructions
compressed_instructions == <<>>

\* inst & MASK_OPCODE, as a natural
Opcode(w) == w[1] % 128

\* InstDecoder.opcode_map[opcode]: the descriptors of one opcode, in table order
opcode_map(args, opcode) ==
    SelectSeq(instructions_set(args), LAMBDA x : Opcode(x.identifier) = opcode)

\* is_compressed
is_compressed(inst) == inst[1] % 4 # 3

\* a search from the end of the list: the last descriptor that matches
RECURSIVE FindLast(_, _, _)
FindLast(list, inst, k) ==
    IF k > Len(list) THEN "None"
    ELSE IF MaskMatches(inst, list[Len(list) + 1 - k].mask,
                        list[Len(list) + 1 - k].identifier)
    THEN list[Len(list) + 1 - k].name
    ELSE FindLast(list, inst, k + 1)

\* Iterator::find(|x| x.mask & inst == x.identifier): first match, or "None"
RECURSIVE Find(_, _, _)
Find(list, inst, k) ==
    IF k > Len(list) THEN "None"
    ELSE IF MaskMatches(inst, list[k].mask, list[k].identifier) THEN list[k].name
    ELSE Find(list, inst, k + 1)

\* InstDecoder::slow_path: [ret, name]
slow_path(emu, inst) ==
    IF is_compressed(inst) THEN
        LET f == Find(compressed_instructions, inst, 1)
        IN  IF f = "None" THEN [ret |-> "Err", name |-> "None"]
            ELSE [ret |-> "Ok", name |-> f]
    ELSE
        LET f == Find(opcode_map(emu.config, Opcode(inst)), inst, 1)
        IN  IF f # "None" THEN [ret |-> "Ok", name |-> f]
            ELSE IF Find(instructions_set(emu.config), inst, 1) # "None"
                 THEN [ret |-> "Panic", name |-> "None"]
                 ELSE [ret |-> "Err", name |-> "None"]

\* InstDecoder::cache_has_capacity
cache_has_capacity(emu) == emu.cache_capacity # 0

\* InstDecoder::fast_path: with a cache it only looks the word up; nothing
\* ever inserts into the cache
fast_path(emu, inst) ==
    IF is_compressed(inst) \/ ~cache_has_capacity(emu) THEN slow_path(emu, inst)
    ELSE IF inst \in emu.cache
         THEN [ret |-> "Ok", name |-> slow_path(emu, inst).name]
         ELSE [ret |-> "Err", name |-> "None"]

\* register fields are five bits wide
Field(inst, start) == ToNat(bit_range(inst, start, start + 5))

parse_format_r(inst) ==
    [rs1 |-> Field(inst, 15), rs2 |-> Field(inst, 20), rd |-> Field(inst, 7)]

parse_format_i(inst) ==
    [rs1 |-> Field(inst, 15), rd |-> Field(inst, 7),
     imm |-> sign_extend_64(bit_range(inst, 20, 32), 12)]

parse_format_s(inst) ==
    [rs1 |-> Field(inst, 15), rs2 |-> Field(inst, 20),
     imm |-> sign_extend_64(Or64(Shl64(bit_range(inst, 25, 32), 5),
                                 bit_range(inst, 7, 12)), 12)]

parse_format_b(inst) ==
    [rs1 |-> Field(inst, 15), rs2 |-> Field(inst, 20),
     imm |-> sign_extend_64(
                 Or64(Or64(Shl64(bit(inst, 31), 12), Shl64(bit(inst, 7), 11)),
                      Or64(Shl64(bit_range(inst, 25, 31), 5),
                           Shl64(bit_range(inst, 8, 12), 1))), 13)]

parse_format_u(inst) ==
    [rd |-> Field(inst, 7),
     imm |-> sign_extend_64(Shl64(bit_range(inst, 12, 32), 12), 32)]

parse_format_j(inst) ==
    [rd |-> Field(inst, 7),
     imm |-> sign_extend_64(
                 Or64(Or64(Shl64(bit(inst, 31), 20), Shl64(bit_range(inst, 12, 20), 12)),
                      Or64(Shl64(bit(inst, 20), 11),
                           Shl64(bit_range(inst, 21, 31), 1))), 21)]

---------------------------------------------------------------------------
(* RV64I handlers (instructions/rv64i.rs).  A handler takes the emulator,  *)
(* the instruction word and its pc and returns [ret, emu] with ret "Ok",   *)
(* "Err" (the Result is an error) or "Panic" (the process aborts).         *)
(* Register numbers come from five-bit fields, so get_reg and set_reg      *)
(* never fail in a handler.                                                *)

RetOk(emu) == [ret |-> "Ok", emu |-> emu]
RetErr(emu) == [ret |-> "Err", emu |-> emu]
RetPanic(emu) == [ret |-> "Panic", emu |-> emu]

\* `emu.set_reg(rd, value)` as the handler's result
RetSetReg(emu, rd, value) ==
    LET r == set_reg(emu, rd, value)
    IN  [ret |-> IF r.ok THEN "Ok" ELSE "Err", emu |-> r.emu]

\* Emulator::set_pc as the handlers use it: the next pc
set_pc(emu, target) == set_npc(emu, target)

\* is_inst_addr_misaligned
is_inst_addr_misaligned(target) == target[1] % 4 # 0

\* Exception::InstructionAddressMisaligned { addr }
InstructionAddressMisaligned(addr) ==
    [type |-> "InstructionAddressMisaligned", addr |-> addr]

\* Event::None, Event::Halted, Event::Break, Event::WatchWrite(addr) and
\* Event::WatchRead(addr)
EventNone == [kind |-> "None", addr |-> Zero64]
Halted == [kind |-> "Halted", addr |-> Zero64]
Break == [kind |-> "Break", addr |-> Zero64]
WatchWrite(addr) == [kind |-> "WatchWrite", addr |-> addr]
WatchRead(addr) == [kind |-> "WatchRead", addr |-> addr]

\* the common tail of a taken branch
BranchTo(emu, target) ==
    IF is_inst_addr_misaligned(target)
    THEN RetOk([emu EXCEPT !.execption = InstructionAddressMisaligned(target)])
    ELSE RetOk(set_pc(emu, target))

lui(emu, inst, ipc) ==
    LET u == parse_format_u(inst) IN RetSetReg(emu, u.rd, u.imm)

auipc(emu, inst, ipc) ==
    LET u == parse_format_u(inst) IN RetSetReg(emu, u.rd, wrapping_add(ipc, u.imm))

\* a jal that jumps without the alignment check
jal_unchecked(emu, inst, ipc) ==
    LET j == parse_format_j(inst)
        linked == set_reg(emu, j.rd, wrapping_add(ipc, U64(4)))
    IN  IF ~linked.ok THEN RetErr(linked.emu)
        ELSE RetOk(set_pc(linked.emu, wrapping_add(ipc, j.imm)))

jal(emu, inst, ipc) ==
    LET j == parse_format_j(inst)
        linked == set_reg(emu, j.rd, wrapping_add(ipc, U64(4)))
        target == wrapping_add(ipc, j.imm)
    IN  IF ~linked.ok THEN RetErr(linked.emu)
        ELSE IF is_inst_addr_misaligned(target)
        THEN RetOk([linked.emu EXCEPT !.execption = InstructionAddressMisaligned(target)])
        ELSE RetOk(set_pc(linked.emu, target))

jalr(emu, inst, ipc) ==
    LET i == parse_format_i(inst)
        sum == wrapping_add(get_reg(emu, i.rs1), i.imm)
        target == <<sum[1] - (sum[1] % 2), sum[2], sum[3], sum[4]>>
    IN  IF is_inst_addr_misaligned(target)
        THEN RetOk([emu EXCEPT !.execption = InstructionAddressMisaligned(target)])
        ELSE RetSetReg(set_pc(emu, target), i.rd, wrapping_add(ipc, U64(4)))

\* a beq that sets the next pc before it records a misaligned target
beq_jump_first(emu, inst, ipc) ==
    LET b == parse_format_b(inst)
        target == wrapping_add(ipc, b.imm)
    IN  IF get_reg(emu, b.rs1) = get_reg(emu, b.rs2)
        THEN BranchTo(set_pc(emu, target), target)
        ELSE RetOk(emu)

beq(emu, inst, ipc) ==
    LET b == parse_format_b(inst)
        lhs == get_reg(emu, b.rs1)
        rhs == get_reg(emu, b.rs2)
    IN  IF lhs = rhs THEN BranchTo(emu, wrapping_add(ipc, b.imm)) ELSE RetOk(emu)

bne(emu, inst, ipc) ==
    LET b == parse_format_b(inst)
        lhs == get_reg(emu, b.rs1)
        rhs == get_reg(emu, b.rs2)
    IN  IF lhs # rhs THEN BranchTo(emu, wrapping_add(ipc, b.imm)) ELSE RetOk(emu)

blt(emu, inst, ipc) ==
    LET b == parse_format_b(inst)
        lhs == get_reg(emu, b.rs1)
        rhs == get_reg(emu, b.rs2)
    IN  IF LtS(lhs, rhs) THEN BranchTo(emu, wrapping_add(ipc, b.imm)) ELSE RetOk(emu)

bge(emu, inst, ipc) ==
    LET b == parse_format_b(inst)
        lhs == get_reg(emu, b.rs1)
        rhs == get_reg(emu, b.rs2)
    IN  IF ~LtS(lhs, rhs) THEN BranchTo(emu, wrapping_add(ipc, b.imm)) ELSE RetOk(emu)

bltu(emu, inst, ipc) ==
    LET b == parse_format_b(inst)
        lhs == get_reg(emu, b.rs1)
        rhs == get_reg(emu, b.rs2)
    IN  IF LtU(lhs, rhs) THEN BranchTo(emu, wrapping_add(ipc, b.imm)) ELSE RetOk(emu)

bgeu(emu, inst, ipc) ==
    LET b == parse_format_b(inst)
        lhs == get_reg(emu, b.rs1)
        rhs == get_reg(emu, b.rs2)
    IN  IF ~LtU(lhs, rhs) THEN BranchTo(emu, wrapping_add(ipc, b.imm)) ELSE RetOk(emu)

\* Memory::read_byte / read_halfword / read_word / read_doubleword
read_byte(emu, addr) == read(emu, addr, 1)
read_halfword(emu, addr) == read(emu, addr, 2)
read_word(emu, addr) == read(emu, addr, 4)
read_doubleword(emu, addr) == read(emu, addr, 8)

\* Memory::write_byte / write_halfword / write_word / write_doubleword
write_byte(emu, addr, value) == write(emu, addr, LeBytes(value, 1))
write_halfword(emu, addr, value) == write(emu, addr, LeBytes(value, 2))
write_word(emu, addr, value) == write(emu, addr, LeBytes(value, 4))
write_doubleword(emu, addr, value) == write(emu, addr, LeBytes(value, 8))

\* a load: `?` on the bus result, then set_reg of the widened value
Load(emu, rd, res, bits, signed) ==
    IF ~res.ok THEN RetErr(emu)
    ELSE LET raw == FromLeBytes(res.bytes)
         IN  RetSetReg(AfterRead(emu, res), rd,
                       IF signed THEN sign_extend_64(raw, bits) ELSE raw)

\* a store: `?` on the bus result
Store(res) == IF res.ok THEN RetOk(res.emu) ELSE RetErr(res.emu)

\* a lb that zero-extends
lb_zero_extended(emu, inst, ipc) ==
    LET i == parse_format_i(inst)
        addr == wrapping_add(get_reg(emu, i.rs1), i.imm)
    IN  Load(emu, i.rd, read_byte(emu, addr), 8, FALSE)

lb(emu, inst, ipc) ==
    LET i == parse_format_i(inst)
        addr == wrapping_add(get_reg(emu, i.rs1), i.imm)
    IN  Load(emu, i.rd, read_byte(emu, addr), 8, TRUE)

lh(emu, inst, ipc) ==
    LET i == parse_format_i(inst)
        addr == wrapping_add(get_reg(emu, i.rs1), i.imm)
    IN  Load(emu, i.rd, read_halfword(emu, addr), 16, TRUE)

lw(emu, inst, ipc) ==
    LET i == parse_format_i(inst)
        addr == wrapping_add(get_reg(emu, i.rs1), i.imm)
    IN  Load(emu, i.rd, read_word(emu, addr), 32, TRUE)

lbu(emu, inst, ipc) ==
    LET i == parse_format_i(inst)
        addr == wrapping_add(get_reg(emu, i.rs1), i.imm)
    IN  Load(emu, i.rd, read_byte(emu, addr), 8, FALSE)

lhu(emu, inst, ipc) ==
    LET i == parse_format_i(inst)
        addr == wrapping_add(get_reg(emu, i.rs1), i.imm)
    IN  Load(emu, i.rd, read_halfword(emu, addr), 16, FALSE)

ld(emu, inst, ipc) ==
    LET i == parse_format_i(inst)
        addr == wrapping_add(get_reg(emu, i.rs1), i.imm)
    IN  Load(emu, i.rd, read_doubleword(emu, addr), 64, FALSE)

lwu(emu, inst, ipc) ==
    LET i == parse_format_i(inst)
        addr == wrapping_add(get_reg(emu, i.rs1), i.imm)
    IN  Load(emu, i.rd, read_word(emu, addr), 32, FALSE)

sb(emu, inst, ipc) ==
    LET s == parse_format_s(inst)
        addr == wrapping_add(get_reg(emu, s.rs1), s.imm)
    IN  Store(write_byte(emu, addr, And64(get_reg(emu, s.rs2), U64(255))))

sh(emu, inst, ipc) ==
    LET s == parse_format_s(inst)
        addr == wrapping_add(get_reg(emu, s.rs1), s.imm)
    IN  Store(write_halfword(emu, addr, And64(get_reg(emu, s.rs2), U64(65535))))

sw(emu, inst, ipc) ==
    LET s == parse_format_s(inst)
        addr == wrapping_add(get_reg(emu, s.rs1), s.imm)
    IN  Store(write_word(emu, addr, And64(get_reg(emu, s.rs2), <<65535, 65535, 0, 0>>)))

sd(emu, inst, ipc) ==
    LET s == parse_format_s(inst)
        addr == wrapping_add(get_reg(emu, s.rs1), s.imm)
    IN  Store(write_doubleword(emu, addr, get_reg(emu, s.rs2)))

\* 1 or 0 `as u64`
Flag(cond) == IF cond THEN U64(1) ELSE Zero64
\* (value & 0x3F) or (value & 0x1F) as a shift count
Shamt(value, modulus) == value[1] % modulus
\* (value as i32 >> shamt) as u32 as u64, for value below 2^32
Sar32(value, shamt) == bit_range64(Sar64(sign_extend_64(value, 32), shamt), 0, 32)

addi(emu, inst, ipc) ==
    LET i == parse_format_i(inst)
    IN  RetSetReg(emu, i.rd, wrapping_add(get_reg(emu, i.rs1), i.imm))

slti(emu, inst, ipc) ==
    LET i == parse_format_i(inst)
    IN  RetSetReg(emu, i.rd, Flag(LtS(get_reg(emu, i.rs1), i.imm)))

sltiu(emu, inst, ipc) ==
    LET i == parse_format_i(inst)
    IN  RetSetReg(emu, i.rd, Flag(LtU(get_reg(emu, i.rs1), i.imm)))

xori(emu, inst, ipc) ==
    LET i == parse_format_i(inst)
    IN  RetSetReg(emu, i.rd, Xor64(get_reg(emu, i.rs1), i.imm))

ori(emu, inst, ipc) ==
    LET i == parse_format_i(inst)
    IN  RetSetReg(emu, i.rd, Or64(get_reg(emu, i.rs1), i.imm))

andi(emu, inst, ipc) ==
    LET i == parse_format_i(inst)
    IN  RetSetReg(emu, i.rd, And64(get_reg(emu, i.rs1), i.imm))

slli(emu, inst, ipc) ==
    LET i == parse_format_i(inst)
    IN  RetSetReg(emu, i.rd, Shl64(get_reg(emu, i.rs1), Shamt(i.imm, 64)))

srli(emu, inst, ipc) ==
    LET i == parse_format_i(inst)
    IN  RetSetReg(emu, i.rd, Shr64(get_reg(emu, i.rs1), Shamt(i.imm, 64)))

srai(emu, inst, ipc) ==
    LET i == parse_format_i(inst)
    IN  RetSetReg(emu, i.rd, Sar64(get_reg(emu, i.rs1), Shamt(i.imm, 64)))

add(emu, inst, ipc) ==
    LET r == parse_format_r(inst)
    IN  RetSetReg(emu, r.rd, wrapping_add(get_reg(emu, r.rs1), get_reg(emu, r.rs2)))

sub(emu, inst, ipc) ==
    LET r == parse_format_r(inst)
    IN  RetSetReg(emu, r.rd, wrapping_sub(get_reg(emu, r.rs1), get_reg(emu, r.rs2)))

sll(emu, inst, ipc) ==
    LET r == parse_format_r(inst)
    IN  RetSetReg(emu, r.rd,
                  Shl64(get_reg(emu, r.rs1), Shamt(get_reg(emu, r.rs2), 64)))

slt(emu, inst, ipc) ==
    LET r == parse_format_r(inst)
    IN  RetSetReg(emu, r.rd, Flag(LtS(get_reg(emu, r.rs1), get_reg(emu, r.rs2))))

sltu(emu, inst, ipc) ==
    LET r == parse_format_r(inst)
    IN  RetSetReg(emu, r.rd, Flag(LtU(get_reg(emu, r.rs1), get_reg(emu, r.rs2))))

xor(emu, inst, ipc) ==
    LET r == parse_format_r(inst)
    IN  RetSetReg(emu, r.rd, Xor64(get_reg(emu, r.rs1), get_reg(emu, r.rs2)))

srl(emu, inst, ipc) ==
    LET r == parse_format_r(inst)
    IN  RetSetReg(emu, r.rd,
                  Shr64(get_reg(emu, r.rs1), Shamt(get_reg(emu, r.rs2), 64)))

sra(emu, inst, ipc) ==
    LET r == parse_format_r(inst)
    IN  RetSetReg(emu, r.rd,
                  Sar64(get_reg(emu, r.rs1), Shamt(get_reg(emu, r.rs2), 64)))

or(emu, inst, ipc) ==
    LET r == parse_format_r(inst)
    IN  RetSetReg(emu, r.rd, Or64(get_reg(emu, r.rs1), get_reg(emu, r.rs2)))

and(emu, inst, ipc) ==
    LET r == parse_format_r(inst)
    IN  RetSetReg(emu, r.rd, And64(get_reg(emu, r.rs1), get_reg(emu, r.rs2)))

\* todo!(): the handler panics
fence(emu, inst, ipc) == RetPanic(emu)

\* todo!(): the handler panics
ecall(emu, inst, ipc) == RetPanic(emu)

ebreak(emu, inst, ipc) == RetOk([emu EXCEPT !.event = Halted])

addiw(emu, inst, ipc) ==
    LET i == parse_format_i(inst)
        result == bit_range64(wrapping_add(get_reg(emu, i.rs1), i.imm), 0, 32)
    IN  RetSetReg(emu, i.rd, sign_extend_64(result, 32))

slliw(emu, inst, ipc) ==
    LET i == parse_format_i(inst)
        result == bit_range64(Shl64(get_reg(emu, i.rs1), Shamt(i.imm, 32)), 0, 32)
    IN  RetSetReg(emu, i.rd, sign_extend_64(result, 32))

srliw(emu, inst, ipc) ==
    LET i == parse_format_i(inst)
        lhs == bit_range64(get_reg(emu, i.rs1), 0, 32)
    IN  RetSetReg(emu, i.rd, sign_extend_64(Shr64(lhs, Shamt(i.imm, 32)), 32))

sraiw(emu, inst, ipc) ==
    LET i == parse_format_i(inst)
        lhs == bit_range64(get_reg(emu, i.rs1), 0, 32)
    IN  RetSetReg(emu, i.rd, sign_extend_64(Sar32(lhs, Shamt(i.imm, 32)), 32))

addw(emu, inst, ipc) ==
    LET r == parse_format_r(inst)
        lhs == bit_range64(get_reg(emu, r.rs1), 0, 32)
        rhs == bit_range64(get_reg(emu, r.rs2), 0, 32)
    IN  RetSetReg(emu, r.rd, sign_extend_64(wrapping_add(lhs, rhs), 32))

subw(emu, inst, ipc) ==
    LET r == parse_format_r(inst)
        lhs == bit_range64(get_reg(emu, r.rs1), 0, 32)
        rhs == bit_range64(get_reg(emu, r.rs2), 0, 32)
    IN  RetSetReg(emu, r.rd, sign_extend_64(wrapping_sub(lhs, rhs), 32))

\* a sllw that takes six bits of the count
sllw_count_6_bits(emu, inst, ipc) ==
    LET r == parse_format_r(inst)
        shamt == Shamt(get_reg(emu, r.rs2), 64)
        result == bit_range64(Shl64(get_reg(emu, r.rs1), shamt), 0, 32)
    IN  RetSetReg(emu, r.rd, sign_extend_64(result, 32))

sllw(emu, inst, ipc) ==
    LET r == parse_format_r(inst)
        shamt == Shamt(get_reg(emu, r.rs2), 32)
        result == bit_range64(Shl64(get_reg(emu, r.rs1), shamt), 0, 32)
    IN  RetSetReg(emu, r.rd, sign_extend_64(result, 32))

srlw(emu, inst, ipc) ==
    LET r == parse_format_r(inst)
        lhs == bit_range64(get_reg(emu, r.rs1), 0, 32)
        shamt == Shamt(get_reg(emu, r.rs2), 32)
        result == bit_range64(Shr64(lhs, shamt), 0, 32)
    IN  RetSetReg(emu, r.rd, sign_extend_64(result, 32))

sraw(emu, inst, ipc) ==
    LET r == parse_format_r(inst)
        lhs == bit_range64(get_reg(emu, r.rs1), 0, 32)
        shamt == Shamt(get_reg(emu, r.rs2), 32)
    IN  RetSetReg(emu, r.rd, sign_extend_64(Sar32(lhs, shamt), 32))

\* rv64m::RV_M handlers
mul(emu, inst, ipc) ==
    LET r == parse_format_r(inst)
    IN  RetSetReg(emu, r.rd, wrapping_mul(get_reg(emu, r.rs1), get_reg(emu, r.rs2)))

mulh(emu, inst, ipc) ==
    LET r == parse_format_r(inst)
    IN  RetSetReg(emu, r.rd,
                  MulHigh(get_reg(emu, r.rs1), TRUE, get_reg(emu, r.rs2), TRUE))

mulhsu(emu, inst, ipc) ==
    LET r == parse_format_r(inst)
    IN  RetSetReg(emu, r.rd,
                  MulHigh(get_reg(emu, r.rs1), TRUE, get_reg(emu, r.rs2), FALSE))

mulhu(emu, inst, ipc) ==
    LET r == parse_format_r(inst)
    IN  RetSetReg(emu, r.rd,
                  MulHigh(get_reg(emu, r.rs1), FALSE, get_reg(emu, r.rs2), FALSE))

\* a DIV that divides with `/`, which aborts on i64::MIN / -1
div_overflow_aborts(emu, inst, ipc) ==
    LET r == parse_format_r(inst)
        lhs == get_reg(emu, r.rs1)
        rhs == get_reg(emu, r.rs2)
    IN  IF rhs = Zero64 THEN RetSetReg(emu, r.rd, Max64)
        ELSE IF lhs = <<0, 0, 0, 32768>> /\ rhs = Max64 THEN RetPanic(emu)
        ELSE RetSetReg(emu, r.rd, wrapping_div_i64(lhs, rhs))

div(emu, inst, ipc) ==
    LET r == parse_format_r(inst)
        lhs == get_reg(emu, r.rs1)
        rhs == get_reg(emu, r.rs2)
    IN  IF rhs = Zero64 THEN RetSetReg(emu, r.rd, Max64)
        ELSE RetSetReg(emu, r.rd, wrapping_div_i64(lhs, rhs))

divu(emu, inst, ipc) ==
    LET r == parse_format_r(inst)
        lhs == get_reg(emu, r.rs1)
        rhs == get_reg(emu, r.rs2)
    IN  IF rhs = Zero64 THEN RetSetReg(emu, r.rd, Max64)
        ELSE RetSetReg(emu, r.rd, wrapping_div_u64(lhs, rhs))

rem(emu, inst, ipc) ==
    LET r == parse_format_r(inst)
        lhs == get_reg(emu, r.rs1)
        rhs == get_reg(emu, r.rs2)
    IN  IF rhs = Zero64 THEN RetSetReg(emu, r.rd, lhs)
        ELSE RetSetReg(emu, r.rd, wrapping_rem_i64(lhs, rhs))

remu(emu, inst, ipc) ==
    LET r == parse_format_r(inst)
        lhs == get_reg(emu, r.rs1)
        rhs == get_reg(emu, r.rs2)
    IN  IF rhs = Zero64 THEN RetSetReg(emu, r.rd, lhs)
        ELSE RetSetReg(emu, r.rd, wrapping_rem_u64(lhs, rhs))

\* `.bit_range(0..32) as i32`, widened to 64 bits
AsI32(v) == sign_extend_64(bit_range64(v, 0, 32), 32)

\* `as i64 as u64` of an i32 result held in 64 bits, `as i32 as i64 as u64` of
\* a u32 one: bits 0..32 sign-extended
FromI32(v) == sign_extend_64(bit_range64(v, 0, 32), 32)

mulw(emu, inst, ipc) ==
    LET r == parse_format_r(inst)
        lhs == AsI32(get_reg(emu, r.rs1))
        rhs == AsI32(get_reg(emu, r.rs2))
    IN  RetSetReg(emu, r.rd, FromI32(wrapping_mul(lhs, rhs)))

divw(emu, inst, ipc) ==
    LET r == parse_format_r(inst)
        lhs == AsI32(get_reg(emu, r.rs1))
        rhs == AsI32(get_reg(emu, r.rs2))
    IN  IF rhs = Zero64 THEN RetSetReg(emu, r.rd, Max64)
        ELSE RetSetReg(emu, r.rd, FromI32(wrapping_div_i64(lhs, rhs)))

divuw(emu, inst, ipc) ==
    LET r == parse_format_r(inst)
        lhs == bit_range64(get_reg(emu, r.rs1), 0, 32)
        rhs == bit_range64(get_reg(emu, r.rs2), 0, 32)
    IN  IF rhs = Zero64 THEN RetSetReg(emu, r.rd, Max64)
        ELSE RetSetReg(emu, r.rd, FromI32(wrapping_div_u64(lhs, rhs)))

\* with rhs == 0 the handler writes `rhs as i64 as u64`
remw(emu, inst, ipc) ==
    LET r == parse_format_r(inst)
        lhs == AsI32(get_reg(emu, r.rs1))
        rhs == AsI32(get_reg(emu, r.rs2))
    IN  IF rhs = Zero64 THEN RetSetReg(emu, r.rd, rhs)
        ELSE RetSetReg(emu, r.rd, FromI32(wrapping_rem_i64(lhs, rhs)))

\* with rhs == 0 the handler writes `rhs as i32 as i64 as u64`
remuw(emu, inst, ipc) ==
    LET r == parse_format_r(inst)
        lhs == bit_range64(get_reg(emu, r.rs1), 0, 32)
        rhs == bit_range64(get_reg(emu, r.rs2), 0, 32)
    IN  IF rhs = Zero64 THEN RetSetReg(emu, r.rd, FromI32(rhs))
        ELSE RetSetReg(emu, r.rd, FromI32(wrapping_rem_u64(lhs, rhs)))

\* rv64a::RV_A "todo!": the handler panics
todo(emu, inst, ipc) == RetPanic(emu)

\* (inst.execute)(emu, instruction, pc): the closure of the descriptor found
execute(name, emu, inst, ipc) ==
    CASE name = "lui" -> lui(emu, inst, ipc)
      [] name = "auipc" -> auipc(emu, inst, ipc)
      [] name = "jal" -> jal(emu, inst, ipc)
      [] name = "jalr" -> jalr(emu, inst, ipc)
      [] name = "beq" -> beq(emu, inst, ipc)
      [] name = "bne" -> bne(emu, inst, ipc)
      [] name = "blt" -> blt(emu, inst, ipc)
      [] name = "bge" -> bge(emu, inst, ipc)
      [] name = "bltu" -> bltu(emu, inst, ipc)
      [] name = "bgeu" -> bgeu(emu, inst, ipc)
      [] name = "lb" -> lb(emu, inst, ipc)
      [] name = "lh" -> lh(emu, inst, ipc)
      [] name = "lw" -> lw(emu, inst, ipc)
      [] name = "lbu" -> lbu(emu, inst, ipc)
      [] name = "lhu" -> lhu(emu, inst, ipc)
      [] name = "sb" -> sb(emu, inst, ipc)
      [] name = "sh" -> sh(emu, inst, ipc)
      [] name = "sw" -> sw(emu, inst, ipc)
      [] name = "addi" -> addi(emu, inst, ipc)
      [] name = "slti" -> slti(emu, inst, ipc)
      [] name = "sltiu" -> sltiu(emu, inst, ipc)
      [] name = "xori" -> xori(emu, inst, ipc)
      [] name = "ori" -> ori(emu, inst, ipc)
      [] name = "andi" -> andi(emu, inst, ipc)
      [] name = "slli" -> slli(emu, inst, ipc)
      [] name = "srli" -> srli(emu, inst, ipc)
      [] name = "srai" -> srai(emu, inst, ipc)
      [] name = "add" -> add(emu, inst, ipc)
      [] name = "sub" -> sub(emu, inst, ipc)
      [] name = "sll" -> sll(emu, inst, ipc)
      [] name = "slt" -> slt(emu, inst, ipc)
      [] name = "sltu" -> sltu(emu, inst, ipc)
      [] name = "xor" -> xor(emu, inst, ipc)
      [] name = "srl" -> srl(emu, inst, ipc)
      [] name = "sra" -> sra(emu, inst, ipc)
      [] name = "or" -> or(emu, inst, ipc)
      [] name = "and" -> and(emu, inst, ipc)
      [] name = "fence" -> fence(emu, inst, ipc)
      [] name = "ecall" -> ecall(emu, inst, ipc)
      [] name = "ebreak" -> ebreak(emu, inst, ipc)
      [] name = "addiw" -> addiw(emu, inst, ipc)
      [] name = "slliw" -> slliw(emu, inst, ipc)
      [] name = "srliw" -> srliw(emu, inst, ipc)
      [] name = "sraiw" -> sraiw(emu, inst, ipc)
      [] name = "addw" -> addw(emu, inst, ipc)
      [] name = "subw" -> subw(emu, inst, ipc)
      [] name = "sllw" -> sllw(emu, inst, ipc)
      [] name = "srlw" -> srlw(emu, inst, ipc)
      [] name = "sraw" -> sraw(emu, inst, ipc)
      [] name = "ld" -> ld(emu, inst, ipc)
      [] name = "lwu" -> lwu(emu, inst, ipc)
      [] name = "sd" -> sd(emu, inst, ipc)
      [] name = "mul" -> mul(emu, inst, ipc)
      [] name = "mulh" -> mulh(emu, inst, ipc)
      [] name = "mulhsu" -> mulhsu(emu, inst, ipc)
      [] name = "mulhu" -> mulhu(emu, inst, ipc)
      [] name = "div" -> div(emu, inst, ipc)
      [] name = "divu" -> divu(emu, inst, ipc)
      [] name = "rem" -> rem(emu, inst, ipc)
      [] name = "remu" -> remu(emu, inst, ipc)
      [] name = "mulw" -> mulw(emu, inst, ipc)
      [] name = "divw" -> divw(emu, inst, ipc)
      [] name = "divuw" -> divuw(emu, inst, ipc)
      [] name = "remw" -> remw(emu, inst, ipc)
      [] name = "remuw" -> remuw(emu, inst, ipc)
      [] name = "todo!" -> todo(emu, inst, ipc)

---------------------------------------------------------------------------
(* Event ring (utils/ringbuf.rs) *)

\* RingBuffer::new: buf is indexed from 0
RingBuffer_new(size) ==
    [buf |-> [k \in 0..(size - 1) |-> EventNone], read |-> 0, write |-> 0, full |-> FALSE]

\* RingBuffer::capacity
capacity(rb) == Cardinality(DOMAIN rb.buf)

\* RingBuffer::is_empty
is_empty(rb) == ~rb.full /\ rb.read = rb.write

\* RingBuffer::is_full
is_full(rb) == rb.full

\* len() without the branch on the full flag
RingBuffer_len_ignores_full(rb) == (rb.write + capacity(rb) - rb.read) % capacity(rb)

\* RingBuffer::len
RingBuffer_len(rb) ==
    IF rb.full
    THEN capacity(rb)
    ELSE (rb.write + capacity(rb) - rb.read) % capacity(rb)

\* push without the check of the full flag
push_unchecked(rb, item) ==
    [ret |-> "Ok",
     rb  |-> [buf   |-> [rb.buf EXCEPT ![rb.write] = item],
              write |-> (rb.write + 1) % capacity(rb),
              read  |-> rb.read,
              full  |-> ((rb.write + 1) % capacity(rb)) = rb.read]]

\* RingBuffer::push: [ret, rb]
push(rb, item) ==
    IF rb.full
    THEN [ret |-> "Full", rb |-> rb]
    ELSE [ret |-> "Ok",
          rb  |-> [buf   |-> [rb.buf EXCEPT ![rb.write] = item],
                   write |-> (rb.write + 1) % capacity(rb),
                   read  |-> rb.read,
                   full  |-> ((rb.write + 1) % capacity(rb)) = rb.read]]

\* RingBuffer::pop: [ret, item, rb]
pop(rb) ==
    IF is_empty(rb)
    THEN [ret |-> "Empty", item |-> EventNone, rb |-> rb]
    ELSE [ret |-> "Ok", item |-> rb.buf[rb.read],
          rb  |-> [buf   |-> rb.buf,
                   write |-> rb.write,
                   read  |-> (rb.read + 1) % capacity(rb),
                   full  |-> FALSE]]

\* push_overwrite that leaves the read index alone on a full ring
push_overwrite_keeps_read(rb, item) ==
    [buf   |-> [rb.buf EXCEPT ![rb.write] = item],
     write |-> (rb.write + 1) % capacity(rb),
     read  |-> rb.read,
     full  |-> rb.full \/ (((rb.write + 1) % capacity(rb)) = rb.read)]

\* RingBuffer::push_overwrite
push_overwrite(rb, item) ==
    LET cap == Cardinality(DOMAIN rb.buf)
        w   == (rb.write + 1) % cap
    IN  [buf   |-> [rb.buf EXCEPT ![rb.write] = item],
         write |-> w,
         read  |-> IF rb.full THEN w ELSE rb.read,
         full  |-> rb.full \/ (w = rb.read)]

---------------------------------------------------------------------------
(* Execution loop (emulator/mod.rs), built with the gdb feature *)

\* Emulator.ref_emu: whether the difftest feature is built in, the number of
\* Difftest::step calls the reference model has run, and the number of the
\* step after which its (pc, x0..x31) differs from the emulator's (0: never)
Reference(configured, stepped, diverges_at) ==
    [configured |-> configured, stepped |-> stepped, diverges_at |-> diverges_at]

\* a build without the difftest feature
NoReference == Reference(FALSE, 0, 0)

\* Option::None of the pending-exception slot
NoException == [type |-> "None", addr |-> Zero64]

\* what one step_internal did: the next pc, the exception slot and the values
\* of the registers rs1 and rs2 it started from; the address and word it ran;
\* how far it got ("fetch", "decode", "execute" name the stage that failed,
\* "done" a full step); and the pc, next pc, exception slot, event and
\* execution state it left
Entry(before, after, inst, name, stage, ret) ==
    [from |-> before.npc, was |-> before.execption,
     rs1 |-> get_reg(before, Field(inst, 15)), rs2 |-> get_reg(before, Field(inst, 20)),
     inst |-> inst, name |-> name, stage |-> stage, ret |-> ret,
     pc |-> after.pc, npc |-> after.npc, execption |-> after.execption,
     event |-> after.event, exec_state |-> after.exec_state]

\* step_internal's Ok(()) at the end of a completed step
step_internal_finish(before, final, instruction, name) ==
    [ret |-> "Ok", emu |-> final,
     entry |-> Entry(before, final, instruction, name, "done", "Ok")]

\* step_internal after the handler returned: `?` on its result, then the
\* Halted check
step_internal_ran(before, instruction, name, ran) ==
    IF ran.ret # "Ok"
    THEN [ret |-> ran.ret, emu |-> ran.emu,
          entry |-> Entry(before, ran.emu, instruction, name, "execute", ran.ret)]
    ELSE step_internal_finish(before,
                              IF ran.emu.event = Halted
                              THEN [ran.emu EXCEPT !.exec_state = "End"]
                              ELSE ran.emu,
                              instruction, name)

\* a step_internal that pre-sets npc two bytes on for every instruction
step_internal_decoded_short(before, emu, cur, instruction, decoded) ==
    IF decoded.ret # "Ok"
    THEN [ret |-> decoded.ret, emu |-> emu,
          entry |-> Entry(before, emu, instruction, "None", "decode", decoded.ret)]
    ELSE step_internal_ran(before, instruction, decoded.name,
             execute(decoded.name, set_npc(emu, wrapping_add(cur, U64(2))),
                     instruction, cur))

\* step_internal after the decoder answered: `?` on its result, the pre-set of
\* npc to the fall-through address, then the handler
step_internal_decoded(before, emu, cur, instruction, decoded) ==
    IF decoded.ret # "Ok"
    THEN [ret |-> decoded.ret, emu |-> emu,
          entry |-> Entry(before, emu, instruction, "None", "decode", decoded.ret)]
    ELSE step_internal_ran(before, instruction, decoded.name,
             execute(decoded.name,
                     set_npc(emu, wrapping_add(cur, IF is_compressed(instruction)
                                                    THEN U64(2) ELSE U64(4))),
                     instruction, cur))

\* a step_internal that pre-sets npc before it asks the decoder
step_internal_fetched_preset(before, synced, cur, fetched) ==
    IF ~fetched.ok
    THEN [ret |-> "Err", emu |-> synced,
          entry |-> Entry(before, synced, <<0, 0>>, "None", "fetch", "Err")]
    ELSE step_internal_decoded(before,
                               set_npc(fetched.emu, wrapping_add(cur, U64(4))),
                               cur, fetched.inst,
                               fast_path(fetched.emu, fetched.inst))

\* step_internal after the fetch: `?` on its result, then the decode
step_internal_fetched(before, synced, cur, fetched) ==
    IF ~fetched.ok
    THEN [ret |-> "Err", emu |-> synced,
          entry |-> Entry(before, synced, <<0, 0>>, "None", "fetch", "Err")]
    ELSE step_internal_decoded(before, fetched.emu, cur, fetched.inst,
                               fast_path(fetched.emu, fetched.inst))

\* step_internal after sync_pc: the fetch at the program counter
step_internal_synced(before, synced) ==
    step_internal_fetched(before, synced, get_pc(synced),
                          fetch_instruction(synced, get_pc(synced)))

\* Emulator::step_internal: [ret, emu, entry]
step_internal(emu) == step_internal_synced(emu, sync_pc(emu))

\* the event_list.push_overwrite of a non-None event after a step
PushEvent(emu) ==
    IF emu.event # EventNone
    THEN [emu EXCEPT !.event_list = push_overwrite(emu.event_list, emu.event)]
    ELSE emu

\* the exec_state a run leaves: End stays, anything else goes back to Idle
Settle(emu) ==
    IF emu.exec_state # "End" THEN [emu EXCEPT !.exec_state = "Idle"] ELSE emu

\* the difftest block of step / steps: Difftest::step(&mut self.ref_emu), then
\* ref_emu.self_state() against self.self_state(): [ok, emu]
difftest_check(emu) ==
    [ok |-> emu.ref_emu.stepped + 1 # emu.ref_emu.diverges_at,
     emu |-> [emu EXCEPT !.ref_emu.stepped = @ + 1]]

\* the end of Emulator::step, after its difftest block
step_checked(d, trace) ==
    IF ~d.ok THEN [ret |-> "Err", emu |-> d.emu, trace |-> trace]
    ELSE [ret |-> "Ok", emu |-> Settle(d.emu), trace |-> trace]

\* Emulator::step after the event was pushed: the difftest block is skipped
\* when the event is Halted
step_pushed(pushed, trace) ==
    IF pushed.ref_emu.configured /\ pushed.event # Halted
    THEN step_checked(difftest_check(pushed), trace)
    ELSE [ret |-> "Ok", emu |-> Settle(pushed), trace |-> trace]

\* Emulator::step after step_internal returned
step_after(r) ==
    IF r.ret # "Ok"
    THEN [ret |-> r.ret, emu |-> r.emu, trace |-> <<r.entry>>]
    ELSE step_pushed(PushEvent(r.emu), <<r.entry>>)

\* Emulator::step: [ret, emu, trace]
step(emu) ==
    step_after(step_internal([emu EXCEPT !.exec_state = "Running",
                                         !.event = EventNone]))

\* the `for _ in 0..n` of Emulator::steps; steps_loop_after is one iteration
\* after its step_internal returned
RECURSIVE steps_loop(_, _, _)
RECURSIVE steps_loop_after(_, _, _)
RECURSIVE steps_loop_pushed(_, _, _)
RECURSIVE steps_loop_checked(_, _, _)
RECURSIVE steps_loop_ended(_, _, _)
steps_loop_ended(emu, n, trace) ==
    IF emu.exec_state = "End"
    THEN [ret |-> "Ok", emu |-> emu, trace |-> trace]
    ELSE steps_loop(emu, n - 1, trace)

steps_loop_checked(d, n, trace) ==
    IF ~d.ok THEN [ret |-> "Err", emu |-> d.emu, trace |-> trace]
    ELSE steps_loop_ended(d.emu, n, trace)

steps_loop_pushed(pushed, n, trace) ==
    IF pushed.ref_emu.configured
    THEN steps_loop_checked(difftest_check(pushed), n, trace)
    ELSE steps_loop_ended(pushed, n, trace)

steps_loop_after(r, n, trace) ==
    IF r.ret # "Ok"
    THEN [ret |-> r.ret, emu |-> r.emu, trace |-> Append(trace, r.entry)]
    ELSE steps_loop_pushed(PushEvent(r.emu), n, Append(trace, r.entry))

steps_loop(emu, n, trace) ==
    IF n = 0 THEN [ret |-> "Ok", emu |-> emu, trace |-> trace]
    ELSE steps_loop_after(step_internal([emu EXCEPT !.event = EventNone]), n, trace)

\* Emulator::steps after its loop
steps_after(r) ==
    IF r.ret # "Ok" THEN r ELSE [r EXCEPT !.emu = Settle(r.emu)]

\* Emulator::steps: [ret, emu, trace]
steps(emu, n) ==
    steps_after(steps_loop([emu EXCEPT !.exec_state = "Running"], n, <<>>))

---------------------------------------------------------------------------
(* GDB target operations (emulator/gdb) *)

\* ExecMode::None / Step / Continue / RangeStep(start, end)
ExecMode(kind, start, end) == [kind |-> kind, start |-> start, end |-> end]
Continue == ExecMode("Continue", Zero64, Zero64)

\* SingleThreadBase::write_registers: set_npc(regs.pc), sync_pc, then set_reg
\* for x0..x31 in order
RECURSIVE SetRegsFrom(_, _, _)
SetRegsFrom(emu, x, i) ==
    IF i = 32 THEN [ok |-> TRUE, emu |-> emu]
    ELSE LET r == set_reg(emu, i, x[i])
         IN  IF ~r.ok THEN r ELSE SetRegsFrom(r.emu, x, i + 1)

write_registers(emu, regs) ==
    SetRegsFrom(sync_pc(set_npc(emu, regs.pc)), regs.x, 0)

\* SingleRegisterAccess::write_register, reg_id Pc
write_register_pc(emu, value) == sync_pc(set_npc(emu, value))

\* SingleRegisterAccess::write_register, reg_id Gpr(reg)
write_register_gpr(emu, reg, value) == set_reg(emu, reg, value)

\* SingleThreadBase::read_registers
read_registers(emu) == [pc |-> get_pc(emu), x |-> emu.registers]

\* Difftest::set_regs for Emulator: set_reg(i, regs[i]) for i in 0..32, results ignored
RECURSIVE SetRegsIgnoring(_, _, _)
SetRegsIgnoring(emu, regs, i) ==
    IF i = 32 THEN emu
    ELSE SetRegsIgnoring(set_reg(emu, i, regs[i]).emu, regs, i + 1)

set_regs(emu, regs) == SetRegsIgnoring(emu, regs, 0)

\* SwBreakpoint::add_sw_breakpoint / remove_sw_breakpoint: [emu, ret]
add_sw_breakpoint(emu, addr) ==
    [emu |-> [emu EXCEPT !.breakpoints = @ \cup {addr}], ret |-> TRUE]

\* a removal that reports success whether or not the address was present
remove_sw_breakpoint_always_true(emu, addr) ==
    [emu |-> [emu EXCEPT !.breakpoints = @ \ {addr}], ret |-> TRUE]

remove_sw_breakpoint(emu, addr) ==
    [emu |-> [emu EXCEPT !.breakpoints = @ \ {addr}], ret |-> addr \in emu.breakpoints]

\* HwWatchpoint::add_hw_watchpoint: every address of addr..addr+len
add_hw_watchpoint(emu, addr, len) ==
    [emu |-> [emu EXCEPT !.watchpoints =
                 @ \cup {wrapping_add(addr, U64(k)) : k \in 0..(len - 1)}],
     ret |-> TRUE]

\* HwWatchpoint::remove_hw_watchpoint: stops at the first address not in the set
RECURSIVE RemoveFrom(_, _, _, _)
RemoveFrom(emu, addr, len, k) ==
    IF k = len THEN [emu |-> emu, ret |-> TRUE]
    ELSE LET a == wrapping_add(addr, U64(k))
         IN  IF a \notin emu.watchpoints THEN [emu |-> emu, ret |-> FALSE]
             ELSE RemoveFrom([emu EXCEPT !.watchpoints = @ \ {a}], addr, len, k + 1)

remove_hw_watchpoint(emu, addr, len) == RemoveFrom(emu, addr, len, 0)

\* usize::MAX of the Continue count (never decremented); the largest integer here
UsizeMax == 2147483647

\* the cycles between two polls of the connection in wait_for_stop_reason
PollInterval == 1000

\* a stop reason of wait_for_stop_reason / on_interrupt
StopReason(reason, addr) == [reason |-> reason, addr |-> addr]

\* no stop reason
NoStop == StopReason("None", Zero64)

\* the `match target.event` of wait_for_stop_reason after a successful step:
\* the stop reason returned, or "None" to go on
EventStop(ev) ==
    CASE ev.kind = "None" -> StopReason("None", Zero64)
      [] ev.kind = "Halted" -> StopReason("Exited", Zero64)
      [] ev.kind = "Break" -> StopReason("Terminated", Zero64)
      [] ev.kind = "WatchWrite" -> StopReason("WatchWrite", ev.addr)
      [] ev.kind = "WatchRead" -> StopReason("WatchRead", ev.addr)

---------------------------------------------------------------------------
(* Programs loaded at memory_base (utils/elf.rs load_elf writes the image   *)
(* and sets npc to the entry address)                                      *)

\* lui_addiw: lui x1, 0x12345; addiw x1, x1, 0x678; ebreak
Prog_lui_addiw == <<<<\h50b7, \h1234>>, <<\h809b, \h6780>>, <<\h0073, \h0010>>>>
\* beq_misaligned: beq x0, x0, +6; addi x0, x0, 5; addi x2, x0, 1; ebreak
Prog_beq_misaligned == <<<<\h0363, \h0000>>, <<\h0013, \h0050>>, <<\h0113, \h0010>>, <<\h0073, \h0010>>>>
\* load_store: auipc x1, 0; sd x1, 16(x1); lb x2, 19(x1); lw x3, -4(x1)
Prog_load_store == <<<<\h0097, \h0000>>, <<\hb823, \h0010>>, <<\h8103, \h0130>>, <<\ha183, \hffc0>>>>
\* jumps: jal x1, +8; ebreak; jalr x2, 0(x1)
Prog_jumps == <<<<\h00ef, \h0080>>, <<\h0073, \h0010>>, <<\h8167, \h0000>>>>
\* jumps_misaligned: jal x1, +6; jalr x2, 2(x1); bne x0, x0, +6; ebreak
Prog_jumps_misaligned == <<<<\h00ef, \h0060>>, <<\h8167, \h0020>>, <<\h1363, \h0000>>, <<\h0073, \h0010>>>>
\* countdown: addi x1, x0, 2; addi x1, x1, -1; bne x1, x0, -4; ebreak
Prog_countdown == <<<<\h0093, \h0020>>, <<\h8093, \hfff0>>, <<\h9ee3, \hfe00>>, <<\h0073, \h0010>>>>
\* fence: addi x1, x0, 1; fence
Prog_fence == <<<<\h0093, \h0010>>, <<\h000f, \h0ff0>>>>
\* ecall: ecall
Prog_ecall == <<<<\h0073, \h0000>>>>
\* load_unmapped: lb x1, 0(x0); ebreak
Prog_load_unmapped == <<<<\h0083, \h0000>>, <<\h0073, \h0010>>>>
\* uart: lui x1, 0x10000; sb x0, 0(x1); lw x2, 4(x1); sw x0, 0(x1)
Prog_uart == <<<<\h00b7, \h1000>>, <<\h8023, \h0000>>, <<\ha103, \h0040>>, <<\ha023, \h0000>>>>
\* illegal: 0xffffffff
Prog_illegal == <<<<\hffff, \hffff>>>>

Programs ==
    {Prog_lui_addiw, Prog_beq_misaligned, Prog_load_store, Prog_jumps,
     Prog_jumps_misaligned, Prog_countdown, Prog_fence, Prog_ecall,
     Prog_load_unmapped, Prog_uart, Prog_illegal}

\* the RAM image of a program: its words little-endian from offset 0, zeros after
Image(prog) ==
    [o \in 0..(memory_size - 1) |->
        IF (o \div 4) + 1 <= Len(prog)
        THEN LeBytes(prog[(o \div 4) + 1], 4)[(o % 4) + 1]
        ELSE 0]

\* what the debugger and the test harness send
GdbRegs == {0, 1}
GdbValues == {U64(1)}
GdbPcs == {wrapping_add(memory_base, U64(8))}
BreakAddrs == {wrapping_add(memory_base, U64(4))}
WatchAddr == wrapping_add(memory_base, U64(19))
WatchLens == {1}
Modes ==
    {ExecMode("Step", Zero64, Zero64), Continue,
     ExecMode("RangeStep", memory_base, wrapping_add(memory_base, U64(8)))}

---------------------------------------------------------------------------
(* The state machine *)

\* the emulator as a value
Emu ==
    [registers |-> registers, pc |-> pc, npc |-> npc, data |-> data,
     mmio_regions |-> mmio_regions, is_last_mmio |-> is_last_mmio,
     exec_state |-> exec_state, exec_mode |-> exec_mode, event |-> event,
     execption |-> execption, event_list |-> event_list,
     breakpoints |-> breakpoints, watchpoints |-> watchpoints,
     cache_capacity |-> cache_capacity, cache |-> cache, config |-> config,
     ref_emu |-> ref_emu]

\* the emulator becomes emu
Becomes(emu) ==
    /\ registers' = emu.registers
    /\ pc' = emu.pc
    /\ npc' = emu.npc
    /\ data' = emu.data
    /\ mmio_regions' = emu.mmio_regions
    /\ is_last_mmio' = emu.is_last_mmio
    /\ exec_state' = emu.exec_state
    /\ exec_mode' = emu.exec_mode
    /\ event' = emu.event
    /\ execption' = emu.execption
    /\ event_list' = emu.event_list
    /\ breakpoints' = emu.breakpoints
    /\ watchpoints' = emu.watchpoints
    /\ cache_capacity' = emu.cache_capacity
    /\ cache' = emu.cache
    /\ config' = emu.config
    /\ ref_emu' = emu.ref_emu

\* the record of the last call: the operation, its arguments (a register
\* number, a value, a count, a pc for write_registers), what it returned, the
\* steps it ran and the execution state it found
Call(op, reg, value, n, ret, trace) ==
    [op |-> op, reg |-> reg, value |-> value, n |-> n, ret |-> ret, trace |-> trace,
     target |-> Zero64, found |-> exec_state]

\* Emulator::new, device_manager::initialize_devices and load_elf: registers
\* zero, pc at the boot address, npc at the entry, the UART mapped
Init ==
    /\ registers = [r \in 0..31 |-> Zero64]
    /\ pc = memory_base
    /\ npc = memory_base
    /\ \E prog \in Programs : data = Image(prog)
    /\ mmio_regions = <<UartRegion>>
    /\ is_last_mmio = FALSE
    /\ exec_state = "Idle"
    /\ exec_mode = Continue
    /\ event = EventNone
    /\ execption = NoException
    /\ event_list = RingBuffer_new(EventListSize)
    /\ breakpoints = {}
    /\ watchpoints = {}
    /\ cache_capacity \in {0, 1}
    /\ cache = {}
    /\ config = InstDecoderArgs(FALSE, FALSE, FALSE)
    /\ ref_emu = NoReference
    /\ \E phase \in {"detached", "stopped"} :
          gdb = [phase |-> phase, cnt |-> 0, delay_cycles |-> 0]
    /\ stop = NoStop
    /\ call = Call("new", 0, Zero64, 0, "Ok", <<>>)

\* the process is running (no handler has panicked)
Alive == call.ret # "Panic"

\* the GDB event loop owns the emulator and the target is stopped: the
\* debugger may send commands
Stopped == Alive /\ gdb.phase = "stopped"

\* no debugger is attached: the caller (the main loop, the difftest harness)
\* drives the emulator through its API
Detached == Alive /\ gdb.phase = "detached"

\* a call that is not part of a debugger run returns: the emulator is as the
\* call left it and no stop reason is reported
Returns(op, reg, value, n, emu, ret, trace) ==
    /\ Becomes(emu)
    /\ call' = Call(op, reg, value, n, ret, trace)
    /\ stop' = NoStop
    /\ UNCHANGED gdb

\* the return of step / steps (r is [ret, emu, trace])
RunReturns(op, n, r) == Returns(op, 0, Zero64, n, r.emu, r.ret, r.trace)

\* the return of a register write (r is [ok, emu])
WriteReturns(op, reg, value, r) ==
    Returns(op, reg, value, 0, r.emu, IF r.ok THEN "Ok" ELSE "Err", <<>>)

\* the return of a breakpoint / watchpoint operation (r is [ret, emu])
PointReturns(op, addr, len, r) ==
    Returns(op, 0, addr, len, r.emu, IF r.ret THEN "Ok" ELSE "False", <<>>)

\* Emulator::steps(n) called directly
CallSteps(n) ==
    /\ Detached
    /\ RunReturns("steps", n, steps(Emu, n))

\* Emulator::step() called directly
CallStep ==
    /\ Detached
    /\ RunReturns("step", 1, step(Emu))

\* GDB writes one general register
GdbWriteRegister(reg, value) ==
    /\ Stopped
    /\ WriteReturns("write_register", reg, value, write_register_gpr(Emu, reg, value))

\* GDB writes the pc register
GdbWritePc(value) ==
    /\ Stopped
    /\ Returns("write_pc", 32, value, 0, write_register_pc(Emu, value), "Ok", <<>>)

\* GDB writes the whole register file: every x register to value, pc to target
GdbWriteRegisters(value, target) ==
    /\ Stopped
    /\ LET r == write_registers(Emu, [pc |-> target, x |-> [i \in 0..31 |-> value]])
       IN  /\ Becomes(r.emu)
           /\ call' = [Call("write_registers", 32, value, 0,
                            IF r.ok THEN "Ok" ELSE "Err", <<>>)
                       EXCEPT !.target = target]
    /\ stop' = NoStop
    /\ UNCHANGED gdb

\* the difftest harness copies a register file into the emulator
DifftestSetRegs(value) ==
    /\ Detached
    /\ Returns("set_regs", 32, value, 0, set_regs(Emu, [i \in 0..31 |-> value]),
               "Ok", <<>>)

\* GDB inserts a software breakpoint
AddSwBreakpoint(addr) ==
    /\ Stopped
    /\ PointReturns("add_sw_breakpoint", addr, 0, add_sw_breakpoint(Emu, addr))

\* GDB removes a software breakpoint
RemoveSwBreakpoint(addr) ==
    /\ Stopped
    /\ PointReturns("remove_sw_breakpoint", addr, 0, remove_sw_breakpoint(Emu, addr))

\* GDB inserts a hardware watchpoint
AddHwWatchpoint(addr, len) ==
    /\ Stopped
    /\ PointReturns("add_hw_watchpoint", addr, len, add_hw_watchpoint(Emu, addr, len))

\* GDB removes a hardware watchpoint
RemoveHwWatchpoint(addr, len) ==
    /\ Stopped
    /\ PointReturns("remove_hw_watchpoint", addr, len,
                    remove_hw_watchpoint(Emu, addr, len))

\* SingleThreadResume::resume, SingleThreadSingleStep::step and
\* SingleThreadRangeStepping::resume_range_step (without a signal): the mode is
\* set and the event loop will call wait_for_stop_reason
GdbResume(mode) ==
    /\ Stopped
    /\ Becomes([Emu EXCEPT !.exec_mode = mode])
    /\ gdb' = [gdb EXCEPT !.phase = "resumed"]
    /\ call' = Call("resume", 0, Zero64, 0, "Ok", <<>>)
    /\ stop' = NoStop

\* wait_for_stop_reason has returned: its locals are gone
Returned(phase) == [phase |-> phase, cnt |-> 0, delay_cycles |-> 0]

\* wait_for_stop_reason up to its loop: cnt from the mode
WfsrEnter ==
    /\ Alive
    /\ gdb.phase = "resumed"
    /\ IF exec_mode.kind = "RangeStep" /\ ~LtU(pc, exec_mode.end)
       THEN /\ gdb' = Returned("closed")
            /\ stop' = StopReason("Exited", Zero64)
       ELSE /\ gdb' = [phase |-> "running",
                       cnt |-> CASE exec_mode.kind = "Step" -> 1
                                 [] exec_mode.kind = "Continue" -> UsizeMax
                                 [] exec_mode.kind = "RangeStep" ->
                                      ToNat(wrapping_sub(exec_mode.end, exec_mode.start))
                                 [] OTHER -> 1,
                       delay_cycles |-> 0]
            /\ stop' = NoStop
    /\ call' = Call("wait_for_stop_reason", 0, Zero64, 0, "Ok", <<>>)
    /\ UNCHANGED <<registers, pc, npc, data, mmio_regions, is_last_mmio, exec_state,
                   exec_mode, event, execption, event_list, breakpoints,
                   watchpoints, cache_capacity, cache, config, ref_emu>>

\* where the event loop goes after a stop reason: the session ends when the
\* target exited, terminated or failed
PhaseAfter(reason) ==
    IF reason \in {"Exited", "Terminated", "Error"} THEN "closed" ELSE "stopped"

\* the head of an iteration of wait_for_stop_reason: the connection is looked
\* at once delay_cycles has reached the interval
poll_due_after_interval(delay_cycles) == delay_cycles > PollInterval

poll_due(delay_cycles) == delay_cycles >= PollInterval

\* the end of an iteration of wait_for_stop_reason: delay_cycles starts again
\* from 0 after the iteration that polled, and counts up otherwise
next_delay_cycles(delay_cycles) ==
    IF delay_cycles >= PollInterval THEN 0 ELSE delay_cycles + 1

\* wait_for_stop_reason after the step() of one iteration returned r, the
\* event of the step mapping to the stop reason sr: the `?` on the result, the
\* match on the event, then the count-down of cnt and the poll delay
WfsrAfterStep(r, sr) ==
    IF r.ret = "Panic" THEN stop' = NoStop /\ UNCHANGED gdb
    ELSE IF r.ret = "Err" THEN
        /\ stop' = StopReason("Error", Zero64)
        /\ gdb' = Returned("closed")
    ELSE IF sr.reason # "None" THEN
        /\ stop' = sr
        /\ gdb' = Returned(PhaseAfter(sr.reason))
    ELSE IF exec_mode.kind # "Continue" /\ gdb.cnt - 1 = 0 THEN
        /\ stop' = StopReason("DoneStep", Zero64)
        /\ gdb' = Returned("stopped")
    ELSE
        /\ stop' = NoStop
        /\ gdb' = [gdb EXCEPT
                     !.cnt = IF exec_mode.kind # "Continue" THEN @ - 1 ELSE @,
                     !.delay_cycles = next_delay_cycles(@)]

WfsrStepped(r, sr) ==
    /\ Becomes(r.emu)
    /\ call' = Call("wait_for_stop_reason", 0, Zero64, 1, r.ret, r.trace)
    /\ WfsrAfterStep(r, sr)

\* the step() of one iteration
WfsrStep(r) == WfsrStepped(r, EventStop(r.emu.event))

\* wait_for_stop_reason returns reason without stepping
WfsrReturns(reason, phase) ==
    /\ stop' = StopReason(reason, Zero64)
    /\ gdb' = Returned(phase)
    /\ call' = Call("wait_for_stop_reason", 0, Zero64, 0, "Ok", <<>>)
    /\ UNCHANGED <<registers, pc, npc, data, mmio_regions, is_last_mmio, exec_state,
                   exec_mode, event, execption, event_list, breakpoints,
                   watchpoints, cache_capacity, cache, config, ref_emu>>

\* one iteration of the loop of wait_for_stop_reason; incoming says whether
\* conn.peek() is Ok and conn.read() returns a byte
WfsrIter ==
    /\ Alive
    /\ gdb.phase = "running"
    /\ \E incoming \in BOOLEAN :
        IF exec_state = "End" THEN WfsrReturns("DoneStep", "stopped")
        ELSE IF poll_due(gdb.delay_cycles) /\ incoming
        THEN WfsrReturns("IncomingData", "incoming")
        ELSE WfsrStep(step(Emu))

Next ==
    \/ \E n \in 0..MaxSteps : CallSteps(n)
    \/ CallStep
    \/ \E reg \in GdbRegs, value \in GdbValues : GdbWriteRegister(reg, value)
    \/ \E value \in GdbPcs : GdbWritePc(value)
    \/ \E value \in GdbValues, target \in GdbPcs : GdbWriteRegisters(value, target)
    \/ \E value \in GdbValues : DifftestSetRegs(value)
    \/ \E addr \in BreakAddrs : AddSwBreakpoint(addr)
    \/ \E addr \in BreakAddrs : RemoveSwBreakpoint(addr)
    \/ \E len \in WatchLens : AddHwWatchpoint(WatchAddr, len)
    \/ \E len \in WatchLens : RemoveHwWatchpoint(WatchAddr, len)
    \/ \E mode \in Modes : GdbResume(mode)
    \/ WfsrEnter
    \/ WfsrIter

Spec == Init /\ [][Next]_vars

---------------------------------------------------------------------------
(* Properties *)

\* the values the register properties write and compare
ProbeValues == {U64(1), Max64}

\* the last transition ran steps of the emulator (step, steps or an iteration
\* of wait_for_stop_reason); their records are call'.trace, the first of them
\* starting from the unprimed state
RanSteps == Len(call'.trace) > 0

\* the rd field of an instruction word
RdOf(inst) == Field(inst, 7)

\* C1, as a state predicate: registers[0] is 0 and get_reg(0) returns 0;
\* set_reg(0, v) succeeds and leaves the emulator as it is; set_reg(r, v) for
\* 1 <= r <= 31 changes entry r of the register file and nothing else.
C1_x0_state ==
    /\ registers[0] = Zero64
    /\ get_reg(Emu, 0) = Zero64
    /\ read_registers(Emu).x[0] = Zero64
    /\ \A v \in ProbeValues :
        /\ set_reg(Emu, 0, v) = [ok |-> TRUE, emu |-> Emu]
        /\ \A r \in 1..31 :
             set_reg(Emu, r, v) = [ok |-> TRUE, emu |-> [Emu EXCEPT !.registers[r] = v]]

\* C1, over the callers of set_reg: a GDB write_register of x0 leaves the
\* register file unchanged and one of x1..x31 changes that entry only; GDB
\* write_registers and difftest set_regs write every entry but x0; the steps of
\* a run change no register but the rd of an executed instruction, and never
\* x0 (a handler with rd = x0 leaves the register file unchanged).
C1_x0_callers ==
    /\ call'.op = "write_register" =>
         registers' = IF call'.reg = 0 THEN registers
                      ELSE [registers EXCEPT ![call'.reg] = call'.value]
    /\ call'.op \in {"write_registers", "set_regs"} =>
         \A i \in 0..31 : registers'[i] = IF i = 0 THEN Zero64 ELSE call'.value
    /\ RanSteps =>
         \A i \in 0..31 :
            registers'[i] # registers[i] =>
               /\ i # 0
               /\ \E k \in 1..Len(call'.trace) : RdOf(call'.trace[k].inst) = i

\* C1: in every reachable state registers[0] = 0 and get_reg(0) returns 0:
\* set_reg(0, v), whether issued by an instruction handler with rd = x0, by GDB
\* write_registers / write_register or by difftest set_regs, leaves the whole
\* register file unchanged, and set_reg(r, v) for 1 <= r <= 31 changes only
\* entry r.
C1_x0_hardwired == [](C1_x0_state) /\ [][C1_x0_callers]_vars

\* C1 witness: GDB has written a nonzero value to x0 and x0 still reads 0
C1_witness ==
    /\ call.op = "write_register"
    /\ call.reg = 0
    /\ call.value = U64(1)
    /\ call.ret = "Ok"
    /\ get_reg(Emu, 0) = Zero64

\* the steps the last call ran
Trace == call.trace
Steps == 1..Len(call.trace)

\* addr + 4
Plus4(addr) == wrapping_add(addr, U64(4))

\* instruction names by what they do with the next pc and with memory
Branches == {"beq", "bne", "blt", "bge", "bltu", "bgeu"}
Jumps == {"jal", "jalr"}
Loads == {"lb", "lh", "lw", "lbu", "lhu", "ld", "lwu"}
Stores == {"sb", "sh", "sw", "sd"}

\* the handler of the step ran (the fetch and the decode succeeded)
Invoked(e) == e.stage \in {"execute", "done"}

\* the branch or jump of step e goes to its target
Taken(e) ==
    CASE e.name = "beq"  -> e.rs1 = e.rs2
      [] e.name = "bne"  -> e.rs1 # e.rs2
      [] e.name = "blt"  -> LtS(e.rs1, e.rs2)
      [] e.name = "bge"  -> ~LtS(e.rs1, e.rs2)
      [] e.name = "bltu" -> LtU(e.rs1, e.rs2)
      [] e.name = "bgeu" -> ~LtU(e.rs1, e.rs2)
      [] OTHER -> e.name \in Jumps

\* the target the branch or jump of step e computes: pc + imm, and
\* (rs1 + imm) & ~1 for jalr
TargetOf(e) ==
    CASE e.name = "jal"  -> wrapping_add(e.pc, parse_format_j(e.inst).imm)
      [] e.name = "jalr" -> And64(wrapping_add(e.rs1, parse_format_i(e.inst).imm),
                                  Not64(U64(1)))
      [] OTHER -> wrapping_add(e.pc, parse_format_b(e.inst).imm)

\* the low two bits of an address are not both zero
Misaligned(addr) == addr[1] % 4 # 0

\* an iteration of wait_for_stop_reason is about to step a Continue run whose
\* next instruction address is a software breakpoint
AtBreakpoint ==
    /\ gdb.phase = "running"
    /\ exec_mode.kind = "Continue"
    /\ exec_state # "End"
    /\ gdb.delay_cycles < PollInterval
    /\ npc \in breakpoints

\* C2: with GDB attached and a software breakpoint at B, a Continue run whose
\* next instruction address reaches B stops with exactly one Break event
\* before the instruction at B is fetched or executed (registers and memory
\* as they were), and the pc reported at the stop is B.
C2_break_before_fetch ==
    [][(AtBreakpoint /\ call'.op = "wait_for_stop_reason") =>
          /\ event' = Break
          /\ event_list' = push_overwrite(event_list, Break)
          /\ stop' = EventStop(Break)
          /\ \A k \in 1..Len(call'.trace) : call'.trace[k].stage = "fetch"
          /\ registers' = registers
          /\ data' = data
          /\ read_registers(Emu').pc = npc]_vars

\* C2 scenario: a Continue run has executed the instruction at a breakpoint
\* address and gone on without a stop
C2_ran_through ==
    /\ call.op = "wait_for_stop_reason"
    /\ exec_mode.kind = "Continue"
    /\ Len(Trace) = 1
    /\ Trace[1].pc \in breakpoints
    /\ Trace[1].stage = "done"
    /\ event = EventNone
    /\ stop = NoStop

\* step k of the last call left an exception in the pending slot
LeftException(k) ==
    /\ Invoked(Trace[k])
    /\ Trace[k].execption # NoException
    /\ Trace[k].execption # Trace[k].was

\* C3: after any step in which a handler left an exception in the pending
\* slot the execution loop stops: the call executes no further instruction
\* and the run ends (exec_state End, or a failure or a stop reason reported to
\* GDB) instead of continuing at the fall-through address.
C3_exception_stops_run ==
    \A k \in Steps :
       LeftException(k) =>
          /\ k = Len(Trace)
          /\ \/ exec_state = "End"
             \/ call.ret # "Ok"
             \/ stop # NoStop

\* the steps of the last call that ran an instruction (whose handler returned
\* success)
Executed == {k \in Steps : Trace[k].stage = "done"}

\* a step of the last call set the event to Halted
SawHalted == \E k \in Steps : Trace[k].event = Halted

\* C4: steps(n) executes instructions one after another until n have run or
\* one sets the event to Halted, whichever comes first: executing EBREAK sets
\* event = Halted and exec_state = End, no instruction after the EBREAK is
\* executed by that call, and if no Halted event occurred exec_state is Idle
\* when the call returns.
C4_steps_until_halted ==
    call.op = "steps" =>
       /\ Len(Trace) <= call.n
       /\ Cardinality(Executed) = call.n \/ SawHalted
       /\ \A k \in Steps :
             /\ (Invoked(Trace[k]) /\ Trace[k].name = "ebreak") =>
                   /\ Trace[k].event = Halted
                   /\ Trace[k].exec_state = "End"
             /\ Trace[k].event = Halted => k = Len(Trace)
       /\ SawHalted => (event = Halted /\ exec_state = "End")
       /\ ~SawHalted => exec_state = "Idle"

\* C4 scenario: steps(n) has returned an error from a step, with no Halted
\* event and the execution state left at Running
C4_failed_running ==
    /\ call.op = "steps"
    /\ call.ret = "Err"
    /\ ~SawHalted
    /\ exec_state = "Running"

\* C5, within a run: every step starts by committing the previous next pc (the
\* one the call found, then the one the step before left) and its handler
\* leaves pc alone, so the pc a step leaves is the next pc it started from
C5_steps_commit_npc ==
    /\ \A k \in Steps :
          /\ Trace[k].pc = Trace[k].from
          /\ k > 1 => Trace[k].from = Trace[k - 1].npc
    /\ Len(Trace) > 0 =>
          /\ pc = Trace[Len(Trace)].pc
          /\ npc = Trace[Len(Trace)].npc

\* C5, across calls: a run starts from the next pc it finds; a GDB pc write
\* (write_register of pc, write_registers) leaves pc = npc = the value written;
\* no other call changes pc or npc
C5_calls_keep_pc ==
    /\ RanSteps => call'.trace[1].from = npc
    /\ call'.op = "write_pc" => (pc' = call'.value /\ npc' = call'.value)
    /\ call'.op = "write_registers" => (pc' = call'.target /\ npc' = call'.target)
    /\ (~RanSteps /\ call'.op \notin {"write_pc", "write_registers"}) =>
          (pc' = pc /\ npc' = npc)

\* C5: pc changes only by sync_pc copying npc into it: within one step pc is
\* assigned exactly once (at the start, to the previous npc), every
\* instruction handler (taken branches, JAL and JALR included) writes npc
\* only, and a GDB pc write is set_npc(v) followed by sync_pc, leaving
\* pc = npc = v.
C5_pc_only_by_sync == [](C5_steps_commit_npc) /\ [][C5_calls_keep_pc]_vars

\* C5 witness: a step has executed a JAL that jumped: pc is the address of
\* the JAL, the next pc its target
C5_witness ==
    /\ Len(Trace) = 1
    /\ Trace[1].name = "jal"
    /\ Trace[1].stage = "done"
    /\ pc = Trace[1].from
    /\ npc = TargetOf(Trace[1])
    /\ npc # Plus4(pc)

\* C6, for one step: a step that succeeded leaves as next pc the address after
\* the instruction (4 on, 2 on for a compressed one) or the target of its
\* taken branch or jump, which has its low two bits zero
C6_step_next(e) ==
    e.stage = "done" =>
       \/ ~is_compressed(e.inst) /\ e.npc = Plus4(e.pc)
       \/ is_compressed(e.inst) /\ e.npc = wrapping_add(e.pc, U64(2))
       \/ /\ e.name \in Branches \cup Jumps
          /\ Taken(e)
          /\ e.npc = TargetOf(e)
          /\ ~Misaligned(e.npc)

\* C6, within a run: the property of every step, and the next step executes
\* at the next pc the step left
C6_steps_next ==
    \A k \in Steps :
       /\ C6_step_next(Trace[k])
       /\ k > 1 => Trace[k].pc = Trace[k - 1].npc

\* C6: for every successful step that executes the instruction at address A,
\* the address executed by the next step (npc after the step) is A + 4 (A + 2
\* for a compressed instruction) or the computed target of a taken branch or
\* jump, and such a target always has its low two bits zero.
C6_next_address ==
    [](C6_steps_next) /\ [][RanSteps => call'.trace[1].pc = npc]_vars

\* C6 witness: a step has executed a taken BNE to an aligned target behind it
C6_witness ==
    /\ Len(Trace) > 0
    /\ Trace[Len(Trace)].name = "bne"
    /\ Trace[Len(Trace)].stage = "done"
    /\ Taken(Trace[Len(Trace)])
    /\ npc = TargetOf(Trace[Len(Trace)])
    /\ LtU(npc, pc)

\* the last call was step or steps and ran k >= 1 steps, all of them
\* successful, each over a 4-byte instruction that is no branch or jump; the
\* first started at the entry address Trace[1].from
Straight ==
    /\ call.op \in {"step", "steps"}
    /\ call.ret = "Ok"
    /\ Len(Trace) >= 1
    /\ \A i \in Steps :
          /\ Trace[i].stage = "done"
          /\ Trace[i].name \notin Branches \cup Jumps
          /\ ~is_compressed(Trace[i].inst)

\* Trace[1].from + 4m
EntryPlus(m) == wrapping_add(Trace[1].from, U64(4 * m))

\* C7 as stated: after k consecutive successful steps over non-branching
\* 4-byte instructions starting from entry address E (npc = E before the first
\* step), get_pc() returns E + 4k; after the two steps of the LUI/ADDIW
\* scenario started at 0x80000000, pc = 0x80000008.
C7_pc_is_entry_plus_4k ==
    Straight => get_pc(Emu) = EntryPlus(Len(Trace))

\* C7, amended: after k >= 1 consecutive successful steps over non-branching
\* 4-byte instructions starting from entry address E, get_pc() returns the
\* address of the last instruction executed, E + 4(k - 1), and the next pc is
\* E + 4k; after the two steps of the LUI/ADDIW scenario started at
\* 0x80000000, pc = 0x80000004 and npc = 0x80000008.
C7_pc_is_last_executed ==
    Straight =>
       /\ get_pc(Emu) = EntryPlus(Len(Trace) - 1)
       /\ npc = EntryPlus(Len(Trace))

\* C7 witness: the two steps of the LUI/ADDIW scenario have run
C7_witness ==
    /\ Straight
    /\ Len(Trace) = 2
    /\ Trace[1].from = memory_base
    /\ Trace[1].name = "lui"
    /\ Trace[2].name = "addiw"
    /\ registers[1] = <<\h5678, \h1234, 0, 0>>
    /\ get_pc(Emu) = Plus4(memory_base)

\* C8: when a conditional branch is taken, or JAL / JALR executes, and the
\* computed target has target & 0b11 != 0, the handler stores
\* InstructionAddressMisaligned{target} in the pending-exception slot, returns
\* success and does not set npc to the target (npc keeps the value it had when
\* the handler was invoked); a branch that is not taken never records an
\* exception.
C8_misaligned_target ==
    \A k \in Steps :
       (Invoked(Trace[k]) /\ Trace[k].name \in Branches \cup Jumps) =>
          /\ (Taken(Trace[k]) /\ Misaligned(TargetOf(Trace[k]))) =>
                /\ Trace[k].execption = InstructionAddressMisaligned(TargetOf(Trace[k]))
                /\ Trace[k].ret = "Ok"
                /\ Trace[k].npc = Plus4(Trace[k].pc)
          /\ ~Taken(Trace[k]) =>
                /\ Trace[k].execption = Trace[k].was
                /\ Trace[k].ret = "Ok"

\* C8 witness: a step has executed the taken BEQ to 0x80000006: the slot holds
\* the exception with that target and the next pc is the fall-through address
C8_witness ==
    /\ Len(Trace) = 1
    /\ Trace[1].name = "beq"
    /\ Taken(Trace[1])
    /\ execption = InstructionAddressMisaligned(wrapping_add(memory_base, U64(6)))
    /\ npc = Plus4(pc)

\* the bytes a load or store instruction accesses
AccessSize(name) ==
    CASE name \in {"lb", "lbu", "sb"} -> 1
      [] name \in {"lh", "lhu", "sh"} -> 2
      [] name \in {"lw", "lwu", "sw"} -> 4
      [] OTHER -> 8

\* the address the load or store of step e accesses: rs1 + imm
AccessAddr(e) ==
    wrapping_add(e.rs1, IF e.name \in Stores THEN parse_format_s(e.inst).imm
                        ELSE parse_format_i(e.inst).imm)

\* address a is in the byte range [addr, addr + size) of the access of step e
Touches(e, a) ==
    /\ LeU(AccessAddr(e), a)
    /\ LtU(wrapping_sub(a, AccessAddr(e)), U64(AccessSize(e.name)))

\* the event and the stop reason a watched access of a must produce
WatchEvent(e, a) == IF e.name \in Stores THEN WatchWrite(a) ELSE WatchRead(a)

\* C9: if address a is in the watchpoint set, any load whose byte range
\* [addr, addr + size) contains a produces event WatchRead(a) and any store
\* whose range contains a produces WatchWrite(a), and wait_for_stop_reason then
\* returns a Watch stop reason carrying that address.
C9_watch_events ==
    \A k \in Steps, a \in watchpoints :
       (/\ Invoked(Trace[k])
        /\ Trace[k].name \in Loads \cup Stores
        /\ Touches(Trace[k], a)) =>
          /\ Trace[k].event = WatchEvent(Trace[k], a)
          /\ call.op = "wait_for_stop_reason" => stop = EventStop(WatchEvent(Trace[k], a))

\* C9 scenario: under GDB a store has written over a watched address and the
\* run has gone on with no event and no stop
C9_store_unwatched ==
    /\ call.op = "wait_for_stop_reason"
    /\ Len(Trace) = 1
    /\ Trace[1].name = "sd"
    /\ Trace[1].stage = "done"
    /\ WatchAddr \in watchpoints
    /\ Touches(Trace[1], WatchAddr)
    /\ event = EventNone
    /\ stop = NoStop

\* the access of step e is to an address outside RAM and outside every device
Unmapped(e) ==
    /\ e.name \in Loads \cup Stores
    /\ ~is_mem_region(AccessAddr(e))
    /\ find_mmio_region(mmio_regions, AccessAddr(e)) = 0

\* C10: every instruction handler returns success for every instruction word
\* and machine state: a fault (a load or store to an address outside RAM and
\* every device, a device-rejected access, FENCE, ECALL) is reported only by
\* depositing an exception (AccessFault for bus errors) in the pending slot,
\* never by returning an error to the loop or aborting the process.
C10_handlers_succeed ==
    /\ call.ret # "Panic"
    /\ \A k \in Steps :
          Invoked(Trace[k]) =>
             /\ Trace[k].ret = "Ok"
             /\ Trace[k].stage = "done"
             /\ Unmapped(Trace[k]) => Trace[k].execption.type = "AccessFault"

\* C10 scenario: the handler of a load from an unmapped address has returned
\* an error to the loop and the pending slot holds nothing
C10_load_error ==
    /\ Len(Trace) > 0
    /\ Trace[Len(Trace)].name = "lb"
    /\ Trace[Len(Trace)].stage = "execute"
    /\ Trace[Len(Trace)].ret = "Err"
    /\ Unmapped(Trace[Len(Trace)])
    /\ call.ret = "Err"
    /\ execption = NoException

\* C10 scenario: the FENCE handler has aborted the process
C10_fence_abort ==
    /\ Len(Trace) > 0
    /\ Trace[Len(Trace)].name = "fence"
    /\ call.ret = "Panic"

\* C3 scenario: steps(2) has executed the misaligned taken BEQ, which left an
\* exception in the slot, and then the instruction at the fall-through address
C3_ran_on ==
    /\ call.op = "steps"
    /\ Len(Trace) = 2
    /\ LeftException(1)
    /\ Trace[1].name = "beq"
    /\ Trace[2].stage = "done"
    /\ Trace[2].pc = Plus4(Trace[1].pc)
    /\ call.ret = "Ok"


\* ---------------------------------------------------------------------------
\* Fetch and decode failures
\* ---------------------------------------------------------------------------

\* Exception::InstructionFault { addr }
InstructionFault(addr) == [type |-> "InstructionFault", addr |-> addr]

\* Exception::IllegalInstruction { instruction, addr }
IllegalInstruction(instruction, addr) ==
    [type |-> "IllegalInstruction", addr |-> addr, instruction |-> instruction]

\* step k of the last call failed in its fetch / in its decode
FetchFailed(k) == Trace[k].stage = "fetch"
DecodeFailed(k) == Trace[k].stage = "decode"

\* C11: a step whose fetch at pc fails leaves InstructionFault{pc} as the
\* exception of that step, a step whose decode fails leaves
\* IllegalInstruction{inst, pc}, and in both cases the step is the last one
\* the loop runs.
C11_fetch_decode_exceptions ==
    \A k \in Steps :
        /\ FetchFailed(k) =>
              /\ Trace[k].execption = InstructionFault(Trace[k].pc)
              /\ k = Len(Trace)
        /\ DecodeFailed(k) =>
              /\ Trace[k].execption = IllegalInstruction(Trace[k].inst, Trace[k].pc)
              /\ k = Len(Trace)

\* a step whose decode failed returned an error to the caller and left the
\* exception slot as it found it: empty
C11_decode_failed_silently ==
    /\ Len(Trace) > 0
    /\ DecodeFailed(Len(Trace))
    /\ Trace[Len(Trace)].inst = <<\hffff, \hffff>>
    /\ Trace[Len(Trace)].ret = "Err"
    /\ Trace[Len(Trace)].execption = NoException
    /\ Trace[Len(Trace)].was = NoException
    /\ call.ret = "Err"


---------------------------------------------------------------------------
(* The ring buffer on its own: push, push_overwrite and pop in any order *)

\* rings of capacity 1..MaxCapacity are exercised
MaxCapacity == 3
\* a run of push_overwrite calls is followed for capacity + ExtraPushes calls
ExtraPushes == 2

\* the items pushed
RingItems == {Halted, Break, WatchRead(memory_base)}

\* the abstract FIFO queue of capacity c: push refuses when full,
\* push_overwrite on a full queue discards the oldest element, pop takes the
\* oldest
Fifo_push(q, c, item) == IF Len(q) = c THEN q ELSE Append(q, item)
Fifo_push_overwrite(q, c, item) ==
    IF Len(q) = c THEN Append(Tail(q), item) ELSE Append(q, item)
Fifo_pop(q) == IF q = <<>> THEN q ELSE Tail(q)

\* the record of the last ring call: the operation, the item pushed, the
\* result and the item popped, the ring it was called on, the abstract queue
\* after it, and the items of the run of push_overwrite calls made since the
\* ring was last empty (burst, meaningful while tracking)
RingCall(op, item, ret, popped, before, fifo, tracking, burst) ==
    [op |-> op, item |-> item, ret |-> ret, popped |-> popped, before |-> before,
     fifo |-> fifo, tracking |-> tracking, burst |-> burst]

\* a freshly built emulator whose event ring has a capacity in 1..MaxCapacity
RingInit ==
    /\ registers = [r \in 0..31 |-> Zero64]
    /\ pc = memory_base
    /\ npc = memory_base
    /\ data = Image(Prog_lui_addiw)
    /\ mmio_regions = <<UartRegion>>
    /\ is_last_mmio = FALSE
    /\ exec_state = "Idle"
    /\ exec_mode = Continue
    /\ event = EventNone
    /\ execption = NoException
    /\ \E c \in 1..MaxCapacity : event_list = RingBuffer_new(c)
    /\ breakpoints = {}
    /\ watchpoints = {}
    /\ cache_capacity = 0
    /\ cache = {}
    /\ config = InstDecoderArgs(FALSE, FALSE, FALSE)
    /\ ref_emu = NoReference
    /\ gdb = [phase |-> "detached", cnt |-> 0, delay_cycles |-> 0]
    /\ stop = NoStop
    /\ call = RingCall("new", EventNone, "Ok", EventNone, event_list, <<>>, TRUE, <<>>)

\* a ring call touches the ring only
RingReturns(rb, rec) ==
    /\ event_list' = rb
    /\ call' = rec
    /\ UNCHANGED <<registers, pc, npc, data, mmio_regions, is_last_mmio,
                   exec_state, exec_mode, event, execption, breakpoints,
                   watchpoints, cache_capacity, cache, config, ref_emu, gdb, stop>>

\* RingBuffer::push called with an item (r is its result)
RingPushed(item, r) ==
    RingReturns(r.rb,
                RingCall("push", item, r.ret, EventNone, event_list,
                         Fifo_push(call.fifo, capacity(event_list), item),
                         FALSE, <<>>))

RingPush ==
    \E item \in RingItems : RingPushed(item, push(event_list, item))

\* RingBuffer::push_overwrite called with an item (rb is the ring it leaves);
\* indexing buf[write] outside the buffer would panic
RingOverwritten(item, rb) ==
    RingReturns(rb,
                RingCall("push_overwrite", item,
                         IF event_list.write \in DOMAIN event_list.buf
                         THEN "Ok" ELSE "Panic",
                         EventNone, event_list,
                         Fifo_push_overwrite(call.fifo, capacity(event_list), item),
                         call.tracking
                            /\ Len(call.burst) < capacity(event_list) + ExtraPushes,
                         IF call.tracking
                               /\ Len(call.burst) < capacity(event_list) + ExtraPushes
                         THEN Append(call.burst, item) ELSE <<>>))

RingPushOverwrite ==
    \E item \in RingItems : RingOverwritten(item, push_overwrite(event_list, item))

\* RingBuffer::pop called (r is its result); a pop that empties the ring
\* starts a new run
RingPopped(r) ==
    RingReturns(r.rb,
                RingCall("pop", EventNone, r.ret, r.item, event_list,
                         Fifo_pop(call.fifo), is_empty(r.rb), <<>>))

RingPop == RingPopped(pop(event_list))

RingNext ==
    \/ RingPush
    \/ RingPushOverwrite
    \/ RingPop

SpecRing == RingInit /\ [][RingNext]_vars

\* popping until pop returns Empty: the items in the order they come out
RECURSIVE DrainFrom(_, _)
DrainFrom(r, n) ==
    IF r.ret = "Empty" \/ n = 0 THEN <<>>
    ELSE <<r.item>> \o DrainFrom(pop(r.rb), n - 1)

Drain(rb) == DrainFrom(pop(rb), capacity(rb) + 1)

\* the last n elements of a sequence
LastN(s, n) == SubSeq(s, Len(s) - n + 1, Len(s))

Min(a, b) == IF a < b THEN a ELSE b

\* C12: after any interleaving of push, push_overwrite and pop on a ring of
\* capacity c >= 1, popping until Empty returns exactly the contents of the
\* abstract FIFO queue (push_overwrite on a full queue discards the oldest
\* element and appends the new one); each successful pop returns the head of
\* that queue; and after k push_overwrite calls on an empty ring the pops
\* return the last min(k, c) items pushed, in push order, the newest included.
C12_fifo_contents ==
    /\ Drain(event_list) = call.fifo
    /\ (call.op = "pop" /\ call.ret = "Ok") =>
          /\ Drain(call.before) # <<>>
          /\ call.popped = Head(Drain(call.before))
    /\ call.tracking =>
          /\ Drain(event_list)
                = LastN(call.burst, Min(Len(call.burst), capacity(event_list)))
          /\ call.burst # <<>> =>
                Drain(event_list)[Len(Drain(event_list))]
                    = call.burst[Len(call.burst)]

\* a ring of capacity 2 that took four push_overwrite calls from empty: the
\* two oldest items are gone
C12_witness ==
    /\ call.op = "push_overwrite"
    /\ capacity(event_list) = 2
    /\ call.tracking
    /\ call.burst = <<Halted, Break, WatchRead(memory_base), Halted>>
    /\ Drain(event_list) = <<WatchRead(memory_base), Halted>>

\* C13: in every reachable state of a ring of capacity c >= 1,
\* 0 <= len() <= c, is_full() iff len() = c, is_empty() iff len() = 0, and
\* len() is the number of elements a drain by pop returns.
C13_len_consistent ==
    /\ capacity(event_list) >= 1
    /\ 0 <= RingBuffer_len(event_list)
    /\ RingBuffer_len(event_list) <= capacity(event_list)
    /\ is_full(event_list) <=> (RingBuffer_len(event_list) = capacity(event_list))
    /\ is_empty(event_list) <=> (RingBuffer_len(event_list) = 0)
    /\ RingBuffer_len(event_list) = Len(Drain(event_list))

\* a full ring whose indices have wrapped
C13_witness ==
    /\ capacity(event_list) = 3
    /\ is_full(event_list)
    /\ event_list.read = 2
    /\ event_list.write = 2
    /\ RingBuffer_len(event_list) = 3
    /\ Len(Drain(event_list)) = 3

---------------------------------------------------------------------------
(* The MMIO region list on its own: map_mmio, unmap_mmio, sort_mmio_regions *)
(* and bus accesses in any order                                            *)

\* at most MaxRegions regions are mapped at a time
MaxRegions == 2

\* the UART window, the middle of it, a window that straddles the start of
\* RAM, and the last 16 bytes of the address space
MmioBases ==
    {UartRegion.base, wrapping_add(UartRegion.base, U64(8)),
     wrapping_sub(memory_base, U64(8)), wrapping_sub(Zero64, U64(16))}
MmioSizes == {U64(0), U64(16)}

\* addresses accessed: UART registers, bytes between them, an address below
\* RAM, one in the last bytes of the address space, one in RAM, one nowhere
ProbeAddrs ==
    {UartRegion.base, wrapping_add(UartRegion.base, U64(4)),
     wrapping_add(UartRegion.base, U64(8)), wrapping_add(UartRegion.base, U64(12)),
     wrapping_sub(memory_base, U64(4)), wrapping_sub(Zero64, U64(8)),
     memory_base, Zero64}
ProbeSizes == {1, 4}
ProbeData == {<<65>>, <<1, 0, 0, 0>>}

\* MemoryError::MmioOverlap { addr }
MmioOverlap(addr) == [kind |-> "MmioOverlap", addr |-> addr, size |-> 0]

\* the record of the last Memory call: the operation, its address (the base
\* for map / unmap), the size of the region mapped, the length accessed, what
\* it returned (ret, err, bytes), the region it was dispatched to and the
\* offset, the region list before the call, whether sort_mmio_regions has
\* been called since the last map_mmio, and whether the build checks
\* arithmetic overflow
MmioCall(op, addr, size, len, ret, err, bytes, dev, offset, before, sorted,
         overflow_checks) ==
    [op |-> op, addr |-> addr, size |-> size, len |-> len, ret |-> ret,
     err |-> err, bytes |-> bytes, dev |-> dev, offset |-> offset,
     before |-> before, sorted |-> sorted, overflow_checks |-> overflow_checks]

\* Memory::new in either build: no region is mapped
MmioInit ==
    /\ registers = [r \in 0..31 |-> Zero64]
    /\ pc = memory_base
    /\ npc = memory_base
    /\ data = Image(<<>>)
    /\ mmio_regions = <<>>
    /\ is_last_mmio = FALSE
    /\ exec_state = "Idle"
    /\ exec_mode = Continue
    /\ event = EventNone
    /\ execption = NoException
    /\ event_list = RingBuffer_new(EventListSize)
    /\ breakpoints = {}
    /\ watchpoints = {}
    /\ cache_capacity = 0
    /\ cache = {}
    /\ config = InstDecoderArgs(FALSE, FALSE, FALSE)
    /\ ref_emu = NoReference
    /\ gdb = [phase |-> "detached", cnt |-> 0, delay_cycles |-> 0]
    /\ stop = NoStop
    /\ \E overflow_checks \in BOOLEAN :
          call = MmioCall("new", Zero64, Zero64, 0, "Ok", NoError, <<>>, 0, Zero64,
                          <<>>, FALSE, overflow_checks)

\* a Memory call returns: the emulator is as the call left it
BusReturns(emu, rec) ==
    /\ Becomes(emu)
    /\ call' = rec
    /\ UNCHANGED <<gdb, stop>>

\* map_mmio(base, size, uart) returned r
MmioMapped(base, size, r) ==
    BusReturns([Emu EXCEPT !.mmio_regions = r.regions],
               MmioCall("map_mmio", base, size, 0, r.ret,
                        IF r.ret = "MmioOverlap" THEN MmioOverlap(r.addr) ELSE NoError,
                        <<>>, 0, Zero64, mmio_regions, FALSE, call.overflow_checks))

MapMmio ==
    /\ Alive
    /\ Len(mmio_regions) < MaxRegions
    /\ \E base \in MmioBases, size \in MmioSizes :
          MmioMapped(base, size,
                     map_mmio(mmio_regions, base, size, "uart", call.overflow_checks))

\* unmap_mmio(base) returned r
MmioUnmapped(base, r) ==
    BusReturns([Emu EXCEPT !.mmio_regions = r.regions],
               MmioCall("unmap_mmio", base, Zero64, 0,
                        IF r.ret THEN "true" ELSE "false", NoError,
                        <<>>, 0, Zero64, mmio_regions, call.sorted,
                        call.overflow_checks))

UnmapMmio ==
    /\ Alive
    /\ \E base \in MmioBases : MmioUnmapped(base, unmap_mmio(mmio_regions, base))

\* sort_mmio_regions()
SortMmioRegions ==
    /\ Alive
    /\ BusReturns([Emu EXCEPT !.mmio_regions = sort_mmio_regions(mmio_regions)],
                  MmioCall("sort_mmio_regions", Zero64, Zero64, 0, "Ok", NoError,
                           <<>>, 0, Zero64, mmio_regions, TRUE, call.overflow_checks))

\* the build, the sorted mark and the region list carried over an access
AccessCall(op, addr, len, res) ==
    MmioCall(op, addr, Zero64, len, IF res.ok THEN "Ok" ELSE "Err", res.err,
             IF op = "read" THEN res.bytes ELSE <<>>, res.dev, res.offset,
             mmio_regions, call.sorted, call.overflow_checks)

\* read(addr, size) returned res
BusReadDone(addr, size, res) ==
    BusReturns(AfterRead(Emu, res), AccessCall("read", addr, size, res))

BusRead ==
    /\ Alive
    /\ \E addr \in ProbeAddrs, size \in ProbeSizes :
          BusReadDone(addr, size, read(Emu, addr, size))

\* write(addr, data) returned res
BusWriteDone(addr, bytes, res) ==
    BusReturns(res.emu, AccessCall("write", addr, Len(bytes), res))

BusWrite ==
    /\ Alive
    /\ \E addr \in ProbeAddrs, bytes \in ProbeData :
          BusWriteDone(addr, bytes, write(Emu, addr, bytes))

MmioNext ==
    \/ MapMmio
    \/ UnmapMmio
    \/ SortMmioRegions
    \/ BusRead
    \/ BusWrite

SpecMmio == MmioInit /\ [][MmioNext]_vars

\* the half-open ranges [b1, b1 + s1) and [b2, b2 + s2) share an address
\* (a < b + s, without computing the sum)
Below(a, b, s) == LtU(a, b) \/ LtU(wrapping_sub(a, b), s)

Intersects(b1, s1, b2, s2) ==
    /\ s1 # Zero64
    /\ s2 # Zero64
    /\ Below(b1, b2, s2)
    /\ Below(b2, b1, s1)

\* addr lies in [base, base + size)
Inside(addr, base, size) == ~LtU(addr, base) /\ LtU(wrapping_sub(addr, base), size)

\* C15: after any sequence of map_mmio, unmap_mmio and sort_mmio_regions
\* calls the mapped regions are pairwise disjoint as half-open ranges
\* [base, base + size) and none intersects the RAM window.
C15_regions_disjoint ==
    /\ \A i, j \in 1..Len(mmio_regions) :
          i < j => ~Intersects(mmio_regions[i].base, mmio_regions[i].size,
                               mmio_regions[j].base, mmio_regions[j].size)
    /\ \A i \in 1..Len(mmio_regions) :
          ~Intersects(mmio_regions[i].base, mmio_regions[i].size,
                      memory_base, U64(memory_size))

\* the last 16 bytes of the address space mapped twice
C15_mapped_twice ==
    /\ call.op = "map_mmio"
    /\ call.ret = "Ok"
    /\ ~call.overflow_checks
    /\ Len(mmio_regions) = 2
    /\ mmio_regions[1] = mmio_regions[2]
    /\ mmio_regions[1].base = wrapping_sub(Zero64, U64(16))
    /\ mmio_regions[1].size = U64(16)

\* the range [base, base + size) intersects a region of the list or the RAM
\* window
Overlapping(regions, base, size) ==
    \/ \E i \in 1..Len(regions) :
          Intersects(base, size, regions[i].base, regions[i].size)
    \/ Intersects(base, size, memory_base, U64(memory_size))

\* C16: map_mmio(base, size, ..) succeeds iff [base, base + size) overlaps
\* neither an existing region nor the RAM window; on overlap it returns
\* MmioOverlap{addr: base} and the region list is unchanged, and on success
\* exactly one region {base, size} is appended.
C16_map_iff_free ==
    call.op = "map_mmio" =>
        /\ (call.ret = "Ok") <=> ~Overlapping(call.before, call.addr, call.size)
        /\ Overlapping(call.before, call.addr, call.size) =>
              /\ call.ret = "MmioOverlap"
              /\ call.err = MmioOverlap(call.addr)
              /\ mmio_regions = call.before
        /\ call.ret = "Ok" =>
              /\ Len(mmio_regions) = Len(call.before) + 1
              /\ SubSeq(mmio_regions, 1, Len(call.before)) = call.before
              /\ mmio_regions[Len(mmio_regions)].base = call.addr
              /\ mmio_regions[Len(mmio_regions)].size = call.size

\* an empty range inside the UART window is refused as an overlap
C16_empty_refused ==
    /\ call.op = "map_mmio"
    /\ call.before = <<[base |-> UartRegion.base, size |-> U64(16), device |-> "uart"]>>
    /\ call.addr = wrapping_add(UartRegion.base, U64(8))
    /\ call.size = Zero64
    /\ call.ret = "MmioOverlap"
    /\ ~Overlapping(call.before, call.addr, call.size)

\* the regions of the list that contain addr, by a scan from the front
Containing(regions, addr) ==
    {i \in 1..Len(regions) : Inside(addr, regions[i].base, regions[i].size)}

InRam(addr) == Inside(addr, memory_base, U64(memory_size))

\* C17: once sort_mmio_regions has been called after the last map_mmio, the
\* lookup agrees with a linear scan: an access at an address inside a mapped
\* region is dispatched to that region's device with offset = addr - base, a
\* device error comes back as Device(..), and an address outside RAM and
\* outside every region gets OutOfBounds.
C17_lookup_is_scan ==
    (call.sorted /\ call.op \in {"read", "write"} /\ ~InRam(call.addr)) =>
        /\ \A i \in Containing(mmio_regions, call.addr) :
              /\ call.dev = i
              /\ call.offset = wrapping_sub(call.addr, mmio_regions[i].base)
              /\ call.ret = "Err" => call.err = DeviceError
        /\ Containing(mmio_regions, call.addr) = {} =>
              /\ call.ret = "Err"
              /\ call.err = OutOfBounds(call.addr, call.len)

\* a read of the UART data register, inside the one non-empty region, that
\* the lookup missed
C17_lookup_missed ==
    /\ call.sorted
    /\ call.op = "read"
    /\ call.addr = UartRegion.base
    /\ call.len = 1
    /\ Len(mmio_regions) = 2
    /\ mmio_regions[1].base = UartRegion.base
    /\ mmio_regions[2].base = UartRegion.base
    /\ Containing(mmio_regions, call.addr) = {1}
    /\ call.err = OutOfBounds(call.addr, 1)

---------------------------------------------------------------------------
(* The bus of a built emulator on its own: typed and generic reads and     *)
(* writes of RAM, the UART and unmapped addresses, and is_last_mmio         *)

\* addresses accessed: unaligned near the start of RAM, the last 2 bytes of
\* RAM, two UART offsets (the data register and a byte no register covers)
\* and an address nothing is mapped at
RamEnd == wrapping_add(memory_base, U64(memory_size))
BusAddrs ==
    {wrapping_add(memory_base, U64(1)), wrapping_sub(RamEnd, U64(2)),
     UartRegion.base, wrapping_add(UartRegion.base, U64(1)), Zero64}
\* the value written by the typed writes (0xf1e2d3c4b5a69788) and the data of
\* the generic write
BusValues == {<<\h9788, \hb5a6, \hd3c4, \hf1e2>>}
BusData == {<<\haa, \hbb, \hcc>>}
\* sizes of the typed accesses and of the generic read
TypedSizes == {1, 2, 4, 8}
GenericSizes == {3, 4}

\* the record of the last bus call: the operation, its address, the number
\* of bytes, the value written or read, what it returned (ret, err, bytes),
\* the region it was dispatched to, and whether an access has been
\* dispatched to an MMIO region since the last is_last_mmio call
BusCall(op, addr, len, value, ret, err, bytes, dev, hit) ==
    [op |-> op, addr |-> addr, len |-> len, value |-> value, ret |-> ret,
     err |-> err, bytes |-> bytes, dev |-> dev, hit |-> hit]

\* Emulator::new and initialize_devices: RAM zeroed, the UART mapped
BusInit ==
    /\ registers = [r \in 0..31 |-> Zero64]
    /\ pc = memory_base
    /\ npc = memory_base
    /\ data = Image(<<>>)
    /\ mmio_regions = <<UartRegion>>
    /\ is_last_mmio = FALSE
    /\ exec_state = "Idle"
    /\ exec_mode = Continue
    /\ event = EventNone
    /\ execption = NoException
    /\ event_list = RingBuffer_new(EventListSize)
    /\ breakpoints = {}
    /\ watchpoints = {}
    /\ cache_capacity = 0
    /\ cache = {}
    /\ config = InstDecoderArgs(FALSE, FALSE, FALSE)
    /\ ref_emu = NoReference
    /\ gdb = [phase |-> "detached", cnt |-> 0, delay_cycles |-> 0]
    /\ stop = NoStop
    /\ call = BusCall("new", Zero64, 0, Zero64, "Ok", NoError, <<>>, 0, FALSE)

\* the typed read of n bytes
read_typed(emu, addr, n) ==
    CASE n = 1 -> read_byte(emu, addr)
      [] n = 2 -> read_halfword(emu, addr)
      [] n = 4 -> read_word(emu, addr)
      [] n = 8 -> read_doubleword(emu, addr)

\* the typed write of n bytes (the value is passed as u8 / u16 / u32 / u64)
write_typed(emu, addr, value, n) ==
    CASE n = 1 -> write_byte(emu, addr, value)
      [] n = 2 -> write_halfword(emu, addr, value)
      [] n = 4 -> write_word(emu, addr, value)
      [] n = 8 -> write_doubleword(emu, addr, value)

\* a read returned res; the typed reads assemble the value from the bytes
BusReadReturns(op, addr, n, res) ==
    BusReturns(AfterRead(Emu, res),
               BusCall(op, addr, n, IF res.ok THEN FromLeBytes(res.bytes) ELSE Zero64,
                       IF res.ok THEN "Ok" ELSE "Err", res.err, res.bytes, res.dev,
                       call.hit \/ res.dev # 0))

\* a write returned res
BusWriteReturns(op, addr, n, value, res) ==
    BusReturns(res.emu,
               BusCall(op, addr, n, value, IF res.ok THEN "Ok" ELSE "Err", res.err,
                       <<>>, res.dev, call.hit \/ res.dev # 0))

TypedRead ==
    \E addr \in BusAddrs, n \in TypedSizes :
        BusReadReturns("read_typed", addr, n, read_typed(Emu, addr, n))

TypedWrite ==
    \E addr \in BusAddrs, n \in TypedSizes, value \in BusValues :
        BusWriteReturns("write_typed", addr, n, value, write_typed(Emu, addr, value, n))

GenericRead ==
    \E addr \in BusAddrs, n \in GenericSizes :
        BusReadReturns("read", addr, n, read(Emu, addr, n))

GenericWrite ==
    \E addr \in BusAddrs, bytes \in BusData :
        BusWriteReturns("write", addr, Len(bytes), Zero64, write(Emu, addr, bytes))

\* Memory::is_last_mmio: [ret, emu]
is_last_mmio_take(emu) ==
    [ret |-> emu.is_last_mmio, emu |-> [emu EXCEPT !.is_last_mmio = FALSE]]

IsLastMmioReturns(r) ==
    BusReturns(r.emu,
               BusCall("is_last_mmio", Zero64, 0, Zero64,
                       IF r.ret THEN "true" ELSE "false", NoError, <<>>, 0, FALSE))

IsLastMmio == IsLastMmioReturns(is_last_mmio_take(Emu))

BusNext ==
    \/ TypedRead
    \/ TypedWrite
    \/ GenericRead
    \/ GenericWrite
    \/ IsLastMmio

SpecBus == BusInit /\ [][BusNext]_vars

\* byte k (0 = least significant) of a 64-bit value
ByteOf(v, k) == Shr64(v, 8 * k)[1] % 256

\* v truncated to 8n bits
Trunc(v, n) ==
    CASE n = 1 -> <<v[1] % 256, 0, 0, 0>>
      [] n = 2 -> <<v[1], 0, 0, 0>>
      [] n = 4 -> <<v[1], v[2], 0, 0>>
      [] n = 8 -> v

\* [addr, addr + n) lies inside RAM
InRamRange(addr, n) ==
    /\ InRam(addr)
    /\ ToNat(wrapping_sub(addr, memory_base)) + n <= memory_size

\* C18: for n in {1, 2, 4, 8}, a value v and an address with [addr, addr + n)
\* inside RAM, aligned or not, the n-byte typed write succeeds and the n-byte
\* typed read that follows returns v truncated to 8n bits; the bytes lie in
\* RAM least significant first, and the generic read(addr, n) returns them in
\* that order.
C18_typed_round_trip ==
    (call.op = "write_typed" /\ InRamRange(call.addr, call.len)) =>
        /\ call.ret = "Ok"
        /\ read_typed(Emu, call.addr, call.len).ok
        /\ FromLeBytes(read_typed(Emu, call.addr, call.len).bytes)
              = Trunc(call.value, call.len)
        /\ read(Emu, call.addr, call.len).ok
        /\ read(Emu, call.addr, call.len).bytes
              = [k \in 1..call.len |-> ByteOf(call.value, k - 1)]
        /\ \A k \in 0..(call.len - 1) :
              data[ToNat(wrapping_sub(call.addr, memory_base)) + k]
                  = ByteOf(call.value, k)

\* an unaligned 8-byte write at memory_base + 1 whose bytes are in RAM
C18_witness ==
    /\ call.op = "write_typed"
    /\ call.len = 8
    /\ call.addr = wrapping_add(memory_base, U64(1))
    /\ call.ret = "Ok"
    /\ data[1] = \h88
    /\ data[8] = \hf1
    /\ FromLeBytes(read_typed(Emu, call.addr, 8).bytes) = <<\h9788, \hb5a6, \hd3c4, \hf1e2>>

\* the last call was a read or a write of the bus
BusAccess == call.op \in {"read_typed", "write_typed", "read", "write"}

\* the access starts in RAM and runs past its end
PastEnd(addr, n) == InRam(addr) /\ ~InRamRange(addr, n)

\* what a read or write whose range runs past the end of RAM returned
C19_refused ==
    (BusAccess /\ PastEnd(call.addr, call.len)) =>
        /\ call.ret = "Err"
        /\ call.err = OutOfBounds(call.addr, call.len)
        /\ call.dev = 0

\* C19: a read or write that starts in RAM and whose range [addr, addr+size)
\* runs past the end of RAM returns OutOfBounds{addr, size}, for the typed
\* sizes and for generic lengths; it reaches no MMIO device (nothing is
\* dispatched, the MMIO latch is not touched) and a failed write changes no
\* byte of RAM.
C19_past_end_out_of_bounds ==
    /\ [](C19_refused)
    /\ [][PastEnd(call'.addr, call'.len) =>
             /\ data' = data
             /\ is_last_mmio' = is_last_mmio]_vars

\* a 4-byte typed write at the last two bytes of RAM, refused, over RAM that
\* an earlier 2-byte write had filled
C19_witness ==
    /\ call.op = "write_typed"
    /\ call.len = 4
    /\ call.addr = wrapping_sub(RamEnd, U64(2))
    /\ call.err = OutOfBounds(call.addr, 4)
    /\ data[memory_size - 2] = \h88
    /\ data[memory_size - 1] = \h97

\* C20: is_last_mmio() returns true iff at least one bus read or write hit an
\* MMIO region since the previous is_last_mmio() call (or since creation); it
\* clears the flag, so a call that follows at once returns false; accesses
\* that resolve to RAM or fail with OutOfBounds never set the flag.
C20_latch_iff_hit ==
    /\ [](call.op = "is_last_mmio" => ~is_last_mmio)
    /\ [][/\ call'.op = "is_last_mmio" => (call'.ret = "true" <=> call.hit)
          /\ (call.op = "is_last_mmio" /\ call'.op = "is_last_mmio") =>
                call'.ret = "false"
          /\ (call'.op # "is_last_mmio" /\ call'.dev = 0) =>
                is_last_mmio' = is_last_mmio]_vars

\* a read dispatched to the UART at an offset no register covers: the device
\* refused it and the flag is not latched
C20_hit_not_latched ==
    /\ call.op = "read_typed"
    /\ call.addr = wrapping_add(UartRegion.base, U64(1))
    /\ call.dev = 1
    /\ call.err = DeviceError
    /\ call.hit
    /\ ~is_last_mmio

---------------------------------------------------------------------------
(* Software breakpoints *)

\* this transition is a return of the breakpoint operation op
SwBreakpointCall(op) == call'.op = op /\ gdb.phase = "stopped" /\ gdb'.phase = "stopped"

\* C26: add_sw_breakpoint(a) always reports success and leaves the set as the
\* old set with a in it, so a second add changes nothing and one remove then
\* leaves a absent; remove_sw_breakpoint(a) reports true exactly when a was in
\* the set, removes a and nothing else, and leaves the set unchanged when a
\* was absent
C26_sw_breakpoints ==
    [][/\ SwBreakpointCall("add_sw_breakpoint") =>
            /\ call'.ret = "Ok"
            /\ breakpoints' = breakpoints \cup {call'.value}
            /\ call'.value \in breakpoints => breakpoints' = breakpoints
            /\ remove_sw_breakpoint(Emu', call'.value).ret
            /\ call'.value \notin remove_sw_breakpoint(Emu', call'.value).emu.breakpoints
            /\ add_sw_breakpoint(Emu', call'.value).emu = Emu'
       /\ SwBreakpointCall("remove_sw_breakpoint") =>
            /\ (call'.ret = "Ok") <=> (call'.value \in breakpoints)
            /\ call'.ret \in {"Ok", "False"}
            /\ breakpoints' = breakpoints \ {call'.value}
            /\ call'.ret = "False" => breakpoints' = breakpoints
            /\ ~remove_sw_breakpoint(Emu', call'.value).ret]_vars

\* a removal of an address that was not in the set has reported false
C26_witness ==
    /\ call.op = "remove_sw_breakpoint"
    /\ call.ret = "False"
    /\ breakpoints = {}
    /\ gdb.phase = "stopped"

---------------------------------------------------------------------------
(* The GDB run modes *)

\* wait_for_stop_reason has just called target.step() in the mode kind
SteppedIn(kind) ==
    call.op = "wait_for_stop_reason" /\ call.n = 1 /\ exec_mode.kind = kind

\* C23: in Step mode with exec_state not End, wait_for_stop_reason executes
\* exactly one instruction and returns DoneStep when that instruction raised
\* no event; it never executes a second instruction before returning
C23_step_mode_one_instruction ==
    SteppedIn("Step") =>
       /\ Len(Trace) = 1
       /\ Trace[1].stage = "done"
       /\ gdb.phase # "running"
       /\ Trace[1].event.kind = "None" => stop.reason = "DoneStep"

\* C23 scenario: the one step of a Step-mode run returned an error, so the
\* wait ended with the error and not with DoneStep although no event was raised
C23_step_failed ==
    /\ SteppedIn("Step")
    /\ Len(Trace) = 1
    /\ Trace[1].event.kind = "None"
    /\ call.ret = "Err"
    /\ stop.reason = "Error"


\* C24: in RangeStep(lo, hi) mode wait_for_stop_reason keeps stepping only
\* while pc is below hi: it returns as soon as, after a step, pc >= hi (or
\* another stop reason fires), so no instruction located at an address >= hi
\* is executed during the range step
C24_range_step_stays_below_end ==
    SteppedIn("RangeStep") =>
       \A k \in Steps : Invoked(Trace[k]) => LtU(Trace[k].pc, exec_mode.end)

\* C24 scenario: a range step has executed an instruction at or past its end
C24_ran_past_end ==
    /\ SteppedIn("RangeStep")
    /\ Len(Trace) = 1
    /\ Trace[1].stage = "done"
    /\ ~LtU(Trace[1].pc, exec_mode.end)

---------------------------------------------------------------------------
(* The decoder on its own: InstDecoder::new for every choice of the M and A *)
(* tables and of the cache capacity, then any sequence of decodes           *)

\* the capacities the decoder cache is built with (others.decoder_cache_size)
CacheCapacities == {0, 1, 2}

\* the args InstDecoder::new returns for (enable_c aborts in new)
DecoderArgs == {InstDecoderArgs(m, a, FALSE) : m \in BOOLEAN, a \in BOOLEAN}

\* the words decoded: add x3,x1,x2; mul x3,x1,x2; div x3,x1,x2; remuw x3,x1,x2;
\* ebreak; jal x1,+8; sd x1,16(x1); 0xffffffff; an OP word with funct7 = 0x7f;
\* an OP-32 word with funct7 = 0x7f; c.nop; the zero word
DecodeWords ==
    {<<\h81b3, \h0020>>, <<\h81b3, \h0220>>, <<\hc1b3, \h0220>>, <<\hf1bb, \h0220>>,
     <<\h0073, \h0010>>, <<\h00ef, \h0080>>, <<\hb823, \h0010>>, <<\hffff, \hffff>>,
     <<\h81b3, \hfe00>>, <<\h81bb, \hfe00>>, <<\h0001, \h0000>>, <<0, 0>>}

\* the record of a decode: the word, what the call returned and what
\* slow_path returns for the same word on the same decoder
DecodeCall(op, inst, r, slow) ==
    [op |-> op, inst |-> inst, ret |-> r.ret, name |-> r.name, slow |-> slow]

\* InstDecoder::new(args) inside Emulator::new
DecodeInit ==
    /\ registers = [r \in 0..31 |-> Zero64]
    /\ pc = memory_base
    /\ npc = memory_base
    /\ data = Image(<<>>)
    /\ mmio_regions = <<UartRegion>>
    /\ is_last_mmio = FALSE
    /\ exec_state = "Idle"
    /\ exec_mode = Continue
    /\ event = EventNone
    /\ execption = NoException
    /\ event_list = RingBuffer_new(EventListSize)
    /\ breakpoints = {}
    /\ watchpoints = {}
    /\ cache_capacity \in CacheCapacities
    /\ cache = {}
    /\ config \in DecoderArgs
    /\ ref_emu = NoReference
    /\ gdb = [phase |-> "detached", cnt |-> 0, delay_cycles |-> 0]
    /\ stop = NoStop
    /\ call = DecodeCall("new", <<0, 0>>, [ret |-> "Ok", name |-> "None"],
                         [ret |-> "Ok", name |-> "None"])

\* a decode leaves the decoder as it was: slow_path reads the tables, and
\* fast_path only calls LruCache::get, which inserts nothing
DecodeReturns(rec) ==
    /\ call' = rec
    /\ UNCHANGED <<registers, pc, npc, data, mmio_regions, is_last_mmio, exec_state,
                   exec_mode, event, execption, event_list, breakpoints,
                   watchpoints, cache_capacity, cache, config, ref_emu, gdb, stop>>

\* decoder.slow_path(inst)
SlowPath(inst) ==
    /\ call.ret # "Panic"
    /\ DecodeReturns(DecodeCall("slow_path", inst, slow_path(Emu, inst),
                                slow_path(Emu, inst)))

\* decoder.fast_path(inst)
FastPath(inst) ==
    /\ call.ret # "Panic"
    /\ DecodeReturns(DecodeCall("fast_path", inst, fast_path(Emu, inst),
                                slow_path(Emu, inst)))

DecodeNext ==
    \/ \E inst \in DecodeWords : SlowPath(inst)
    \/ \E inst \in DecodeWords : FastPath(inst)

SpecDecode == DecodeInit /\ [][DecodeNext]_vars

\* C21: for every 32-bit instruction word, every configured cache capacity
\* and any prior sequence of decodes, fast_path(inst) yields the same outcome
\* as the uncached slow_path(inst): the same descriptor when one matches, and
\* a failure only when slow_path fails
C21_cache_transparent ==
    call.op = "fast_path" =>
       /\ call.ret = call.slow.ret
       /\ call.name = call.slow.name

\* C21 scenario: a decoder built with a cache has failed to decode a word
\* that slow_path decodes
C21_cached_decode_fails ==
    /\ call.op = "fast_path"
    /\ cache_capacity # 0
    /\ call.slow.ret = "Ok"
    /\ call.ret = "Err"

\* the indices of the descriptors of table that match inst
Matching(table, inst) ==
    {k \in 1..Len(table) : MaskMatches(inst, table[k].mask, table[k].identifier)}

\* the name of the first descriptor of table that matches inst, by index
FirstMatch(table, inst) ==
    IF Matching(table, inst) = {} THEN "None"
    ELSE table[CHOOSE k \in Matching(table, inst) :
                  \A j \in Matching(table, inst) : k <= j].name

\* the table a decoder built with args holds: I, then M, then A
FullTable(args) ==
    [k \in 1..(Len(RV_I) + (IF args.enable_m THEN Len(RV_M) ELSE 0)
                         + (IF args.enable_a THEN Len(RV_A) ELSE 0)) |->
        IF k <= Len(RV_I) THEN RV_I[k]
        ELSE IF args.enable_m /\ k <= Len(RV_I) + Len(RV_M) THEN RV_M[k - Len(RV_I)]
        ELSE RV_A[1]]

\* C22: for every non-compressed word slow_path returns the first descriptor,
\* in table insertion order (I, then M if enabled, then A if enabled), with
\* (inst & mask) == identifier, as a linear search of the full table would;
\* it reports "not found" only if no descriptor of the full table matches;
\* and as every mask covers the seven opcode bits, every descriptor that
\* matches a word sits in the bucket of that word, so the abort for an
\* inconsistent bucket is never reached
C22_first_match_in_table_order ==
    /\ \A k \in 1..Len(FullTable(config)) : FullTable(config)[k].mask[1] % 128 = 127
    /\ (call.op = "slow_path" /\ ~is_compressed(call.inst)) =>
          /\ call.ret # "Panic"
          /\ call.name = FirstMatch(FullTable(config), call.inst)
          /\ (call.ret = "Err") <=> (Matching(FullTable(config), call.inst) = {})
          /\ (call.ret = "Ok") <=> (call.name # "None")

\* a MUL word was decoded with the M and the A table enabled: two descriptors
\* match it and the one of the M table was returned
C22_witness ==
    /\ call.op = "slow_path"
    /\ config.enable_m /\ config.enable_a
    /\ Cardinality(Matching(FullTable(config), call.inst)) = 2
    /\ call.name = "mul"

---------------------------------------------------------------------------
(* The execution loop built with the difftest feature: a reference model is *)
(* stepped and compared after the steps of step() and steps(n)              *)

\* the reference models: one that always agrees with the emulator, and ones
\* whose state differs after their first or second step
References == {Reference(TRUE, 0, d) : d \in 0..2}

\* Emulator::new with a reference model, then load_elf
DiffInit ==
    /\ registers = [r \in 0..31 |-> Zero64]
    /\ pc = memory_base
    /\ npc = memory_base
    /\ \E prog \in Programs : data = Image(prog)
    /\ mmio_regions = <<UartRegion>>
    /\ is_last_mmio = FALSE
    /\ exec_state = "Idle"
    /\ exec_mode = Continue
    /\ event = EventNone
    /\ execption = NoException
    /\ event_list = RingBuffer_new(EventListSize)
    /\ breakpoints = {}
    /\ watchpoints = {}
    /\ cache_capacity = 0
    /\ cache = {}
    /\ config = InstDecoderArgs(FALSE, FALSE, FALSE)
    /\ ref_emu \in References
    /\ gdb = [phase |-> "detached", cnt |-> 0, delay_cycles |-> 0]
    /\ stop = NoStop
    /\ call = Call("new", 0, Zero64, 0, "Ok", <<>>)

\* the reference model is followed for this many of its steps
MaxReferenceSteps == 5

\* step() with a reference model
DiffStep ==
    /\ ref_emu.stepped < MaxReferenceSteps
    /\ CallStep

\* steps(n) with a reference model
DiffSteps(n) ==
    /\ ref_emu.stepped < MaxReferenceSteps
    /\ CallSteps(n)

DiffNext ==
    \/ DiffStep
    \/ \E n \in 0..MaxSteps : DiffSteps(n)

SpecDiff == DiffInit /\ [][DiffNext]_vars

\* two calls returned the same result, ran the same instructions and left the
\* same emulator, reference model included
SameOutcome(a, b) ==
    /\ a.ret = b.ret
    /\ a.trace = b.trace
    /\ a.emu = b.emu

\* two calls left the same registers, pc, next pc, memory, event, event ring
\* and execution state
SameState(a, b) ==
    /\ a.emu.registers = b.emu.registers
    /\ a.emu.pc = b.emu.pc
    /\ a.emu.npc = b.emu.npc
    /\ a.emu.data = b.emu.data
    /\ a.emu.event = b.emu.event
    /\ a.emu.event_list = b.emu.event_list
    /\ a.emu.exec_state = b.emu.exec_state

\* C29: step() and steps(1) are interchangeable: from every emulator state
\* they execute the same single instruction and leave identical registers, pc,
\* npc, memory, event, event ring and exec_state (checked with the result of
\* the call and the reference model they leave), including when the
\* instruction is EBREAK and when a reference model is configured
C29_step_is_steps_1 ==
    Alive => /\ SameOutcome(step(Emu), steps(Emu, 1))
             /\ SameState(step(Emu), steps(Emu, 1))

\* C29 scenario: step() has executed an EBREAK with a reference model
\* configured and has not stepped the reference model, which steps(1) from
\* the state before would have stepped
C29_reference_not_stepped ==
    /\ call.op = "step"
    /\ call.ret = "Ok"
    /\ Len(Trace) = 1
    /\ Trace[1].name = "ebreak"
    /\ event = Halted
    /\ ref_emu.configured
    /\ ref_emu.stepped = 0

---------------------------------------------------------------------------
(* The instruction handlers on their own: a decoder with the M table, the   *)
(* registers x1 and x2 holding chosen operands, and the handler of a word   *)
(* invoked as step_internal invokes it                                      *)

\* the handlers invoked in one run
MaxExecuted == 1

\* i64::MIN, and i32::MIN read as a u64 (also memory_base)
MinI64 == <<0, 0, 0, 32768>>
MinI32 == <<0, 32768, 0, 0>>

\* the values of x1: 42, i64::MIN, 0x8000_0000
ExecLhs == {U64(42), MinI64, MinI32}

\* the values of x2: 0, -1, 5, and 2^32 (its low 32 bits are 0)
ExecRhs == {Zero64, Max64, U64(5), <<0, 0, 1, 0>>}

\* div, divu, rem, remu, divw, divuw, remw, remuw x3,x1,x2; jal x1,+8;
\* jal x0,-4; jalr x1,4(x1); jalr x0,0(x1); jalr x3,1(x1); jalr x3,2(x1)
ExecWords ==
    {<<\hc1b3, \h0220>>, <<\hd1b3, \h0220>>, <<\he1b3, \h0220>>, <<\hf1b3, \h0220>>,
     <<\hc1bb, \h0220>>, <<\hd1bb, \h0220>>, <<\he1bb, \h0220>>, <<\hf1bb, \h0220>>,
     <<\h00ef, \h0080>>, <<\hf06f, \hffdf>>, <<\h80e7, \h0040>>, <<\h8067, \h0000>>,
     <<\h81e7, \h0010>>, <<\h81e7, \h0020>>}

\* the record of a handler call: the word, the descriptor's name, the pc it
\* was given, the registers and the exception slot before it, what it
\* returned, the handlers run
ExecCall(inst, name, ipc, before, was, ret, n) ==
    [op |-> "execute", inst |-> inst, name |-> name, ipc |-> ipc,
     before |-> before, was |-> was, ret |-> ret, n |-> n]

\* Emulator::new with enable_m, RAM zeroed, x1 and x2 holding the operands
ExecInit ==
    /\ \E lhs \in ExecLhs, rhs \in ExecRhs :
          registers = [r \in 0..31 |-> IF r = 1 THEN lhs ELSE IF r = 2 THEN rhs
                                       ELSE Zero64]
    /\ pc = memory_base
    /\ npc = memory_base
    /\ data = Image(<<>>)
    /\ mmio_regions = <<UartRegion>>
    /\ is_last_mmio = FALSE
    /\ exec_state = "Running"
    /\ exec_mode = Continue
    /\ event = EventNone
    /\ execption = NoException
    /\ event_list = RingBuffer_new(EventListSize)
    /\ breakpoints = {}
    /\ watchpoints = {}
    /\ cache_capacity = 0
    /\ cache = {}
    /\ config = InstDecoderArgs(TRUE, FALSE, FALSE)
    /\ ref_emu = NoReference
    /\ gdb = [phase |-> "detached", cnt |-> 0, delay_cycles |-> 0]
    /\ stop = NoStop
    /\ call = ExecCall(<<0, 0>>, "None", memory_base, registers, NoException, "Ok", 0)

\* the handler returned r
ExecReturns(inst, name, r) ==
    /\ Becomes(r.emu)
    /\ call' = ExecCall(inst, name, npc, registers, execption, r.ret, call.n + 1)
    /\ UNCHANGED <<gdb, stop>>

\* step_internal from its decode on, for the word inst fetched at npc: pc
\* synchronised, npc preset to pc + 4, then (inst.execute)(self, instruction, pc)
Executing(inst) ==
    execute(slow_path(Emu, inst).name,
            set_npc(sync_pc(Emu), wrapping_add(Emu.npc, U64(4))), inst, Emu.npc)

\* step_internal for the word inst fetched at pc: sync_pc, the descriptor of
\* slow_path, npc preset to pc + 4, then (inst.execute)(self, instruction, pc)
Execute(inst) ==
    /\ call.n < MaxExecuted
    /\ call.ret = "Ok"
    /\ slow_path(Emu, inst).ret = "Ok"
    /\ ExecReturns(inst, slow_path(Emu, inst).name, Executing(inst))

ExecNext == \E inst \in ExecWords : Execute(inst)

SpecExec == ExecInit /\ [][ExecNext]_vars

\* the register fields of the word of the last handler call
Rd == Field(call.inst, 7)
Rs1 == Field(call.inst, 15)
Rs2 == Field(call.inst, 20)

\* the low 32 bits of v, sign-extended to 64 bits
Low32(v) == sign_extend_64(bit_range64(v, 0, 32), 32)

\* the last handler call was one of names
Ran(names) == call.op = "execute" /\ call.n > 0 /\ call.name \in names

\* every register but rd is as before the handler
OthersKept == \A r \in 0..31 : r # Rd => registers[r] = call.before[r]

\* C27: with divisor (rs2, or its low 32 bits for the W forms) equal to 0 and
\* no exception raised: DIV, DIVU, DIVW and DIVUW write all ones (-1) to rd,
\* and REM, REMU, REMW and REMUW write the dividend to rd (for the W forms,
\* the low 32 bits of rs1 sign-extended to 64 bits)
C27_division_by_zero ==
    /\ (Ran({"div", "divu"}) /\ call.before[Rs2] = Zero64) =>
          call.ret = "Ok" /\ execption = call.was /\ registers[Rd] = Max64
    /\ (Ran({"divw", "divuw"}) /\ Low32(call.before[Rs2]) = Zero64) =>
          call.ret = "Ok" /\ execption = call.was /\ registers[Rd] = Max64
    /\ (Ran({"rem", "remu"}) /\ call.before[Rs2] = Zero64) =>
          /\ call.ret = "Ok" /\ execption = call.was
          /\ registers[Rd] = call.before[Rs1]
    /\ (Ran({"remw", "remuw"}) /\ Low32(call.before[Rs2]) = Zero64) =>
          /\ call.ret = "Ok" /\ execption = call.was
          /\ registers[Rd] = Low32(call.before[Rs1])

\* C27 scenario: REMW or REMUW with a zero divisor has written 0 to rd, not
\* the dividend
C27_remw_by_zero_writes_zero ==
    /\ Ran({"remw", "remuw"})
    /\ Low32(call.before[Rs2]) = Zero64
    /\ Low32(call.before[Rs1]) # Zero64
    /\ registers[Rd] = Zero64

\* C28: for signed overflow (dividend = most negative value of the operand
\* width, divisor = -1) no exception or abort occurs: DIV writes -2^63 and REM
\* writes 0 to rd; DIVW writes -2^31 sign-extended to 64 bits and REMW writes 0
C28_signed_overflow ==
    /\ (Ran({"div", "rem"}) /\ call.before[Rs1] = MinI64 /\ call.before[Rs2] = Max64) =>
          /\ call.ret = "Ok" /\ execption = call.was /\ OthersKept
          /\ registers[Rd] = IF call.name = "div" THEN MinI64 ELSE Zero64
    /\ (Ran({"divw", "remw"}) /\ Low32(call.before[Rs1]) = Low32(MinI32)
          /\ Low32(call.before[Rs2]) = Max64) =>
          /\ call.ret = "Ok" /\ execption = call.was /\ OthersKept
          /\ registers[Rd] = IF call.name = "divw" THEN <<0, 32768, 65535, 65535>>
                             ELSE Zero64

\* DIV has run on i64::MIN and -1, and DIVW on a dividend whose low word is
\* i32::MIN
C28_witness ==
    \/ /\ Ran({"div"}) /\ call.before[Rs1] = MinI64 /\ call.before[Rs2] = Max64
       /\ registers[Rd] = MinI64
    \/ /\ Ran({"divw"}) /\ call.before[Rs1] = MinI32 /\ call.before[Rs2] = Max64
       /\ registers[Rd] = <<0, 32768, 65535, 65535>>

\* the target of the last jump: pc + J-immediate for JAL, (rs1 + I-immediate)
\* with bit 0 cleared for JALR, rs1 as it was before the instruction
JumpTarget ==
    IF call.name = "jal"
    THEN wrapping_add(call.ipc, parse_format_j(call.inst).imm)
    ELSE And64(wrapping_add(call.before[Rs1], parse_format_i(call.inst).imm),
               Not64(U64(1)))

\* the registers after a link to rd: pc + 4 in rd, x0 and the others kept
Linked ==
    [r \in 0..31 |-> IF r = Rd /\ r # 0 THEN wrapping_add(call.ipc, U64(4))
                     ELSE call.before[r]]

\* C30: JAL writes pc + 4 to rd and sets npc = pc + sign-extended J-immediate;
\* JALR sets npc = (rs1 + sign-extended I-immediate) with bit 0 cleared,
\* computed from the value rs1 held before the instruction even when
\* rd == rs1, and writes pc + 4 to rd; with rd = x0 no register changes. The
\* link is written whether or not the target is aligned; npc is the target
\* when the target is aligned
C30_jal_jalr_link_and_target ==
    Ran({"jal", "jalr"}) =>
        /\ call.ret = "Ok"
        /\ registers = Linked
        /\ ~is_inst_addr_misaligned(JumpTarget) => npc = JumpTarget

\* C30 scenario: a JALR whose target is misaligned has returned without
\* writing pc + 4 to rd
C30_jalr_misaligned_no_link ==
    /\ Ran({"jalr"})
    /\ Rd # 0
    /\ is_inst_addr_misaligned(JumpTarget)
    /\ execption = InstructionAddressMisaligned(JumpTarget)
    /\ registers = call.before
    /\ registers[Rd] # wrapping_add(call.ipc, U64(4))

\* what holds of the jumps: with an aligned target both link and retarget,
\* JALR from the old rs1; JAL links before a misaligned target is recorded
JumpsWhenAligned ==
    /\ (Ran({"jal", "jalr"}) /\ ~is_inst_addr_misaligned(JumpTarget)) =>
          /\ call.ret = "Ok" /\ execption = call.was
          /\ registers = Linked
          /\ npc = JumpTarget
    /\ (Ran({"jal"}) /\ is_inst_addr_misaligned(JumpTarget)) =>
          registers = Linked

----------------------------------------------------------------------------
(* The poll of the connection in a Continue run *)

\* an endless program: jal x0, 0
Prog_spin == << <<\h006f, \h0000>> >>

\* what the debugger sends during a run: the interrupt byte of the remote
\* protocol (Ctrl-C, 0x03) and the first byte of a packet ('$')
ConnBytes == {3, 36}

\* the byte is the interrupt byte
IsInterrupt(b) == b = 3

\* the values of delay_cycles at which the debugger sends a byte
ArrivalDelays == {0, PollInterval - 1, PollInterval}

\* the session of a Continue run: conn holds the bytes the debugger has sent
\* and the stub has not read, since counts the step() calls made while the
\* first of them was waiting, byte is the byte the last wait handed to the stub
PollCall(op, conn, since, byte) ==
    [op |-> op, conn |-> conn, since |-> since, byte |-> byte, ret |-> "Ok"]

\* SIGINT as the address field of a Signal stop reason
SIGINT == U64(2)

PollInit ==
    /\ registers = [r \in 0..31 |-> Zero64]
    /\ pc = memory_base
    /\ npc = memory_base
    /\ data = Image(Prog_spin)
    /\ mmio_regions = <<UartRegion>>
    /\ is_last_mmio = FALSE
    /\ exec_state = "Idle"
    /\ exec_mode = Continue
    /\ event = EventNone
    /\ execption = NoException
    /\ event_list = RingBuffer_new(EventListSize)
    /\ breakpoints = {}
    /\ watchpoints = {}
    /\ cache_capacity = 0
    /\ cache = {}
    /\ config = InstDecoderArgs(FALSE, FALSE, FALSE)
    /\ ref_emu = NoReference
    /\ gdb = [phase |-> "resumed", cnt |-> 0, delay_cycles |-> 0]
    /\ stop = NoStop
    /\ call = PollCall("resume", <<>>, 0, 0)

\* the debugger sends the byte b
ByteArrives(b) ==
    /\ gdb.phase \in {"resumed", "running", "reading"}
    /\ gdb.delay_cycles \in ArrivalDelays
    /\ call.conn = <<>>
    /\ call' = [call EXCEPT !.op = "send", !.conn = <<b>>, !.since = 0]
    /\ UNCHANGED <<registers, pc, npc, data, mmio_regions, is_last_mmio, exec_state,
                   exec_mode, event, execption, event_list, breakpoints,
                   watchpoints, cache_capacity, cache, config, ref_emu, gdb, stop>>

\* wait_for_stop_reason up to its loop
PollEnter ==
    /\ gdb.phase = "resumed"
    /\ gdb' = [phase |-> "running", cnt |-> UsizeMax, delay_cycles |-> 0]
    /\ stop' = NoStop
    /\ call' = [call EXCEPT !.op = "wait_for_stop_reason"]
    /\ UNCHANGED <<registers, pc, npc, data, mmio_regions, is_last_mmio, exec_state,
                   exec_mode, event, execption, event_list, breakpoints,
                   watchpoints, cache_capacity, cache, config, ref_emu>>

\* conn.read() returns the first byte of the connection and
\* wait_for_stop_reason returns IncomingData(byte)
PollRead ==
    /\ call.conn # <<>>
    /\ stop' = StopReason("IncomingData", U64(Head(call.conn)))
    /\ gdb' = Returned("incoming")
    /\ call' = [call EXCEPT !.op = "wait_for_stop_reason", !.conn = Tail(@),
                            !.byte = Head(call.conn)]
    /\ UNCHANGED <<registers, pc, npc, data, mmio_regions, is_last_mmio, exec_state,
                   exec_mode, event, execption, event_list, breakpoints,
                   watchpoints, cache_capacity, cache, config, ref_emu>>

\* the step() of one iteration returned r
PollStepped(r) ==
    /\ Becomes(r.emu)
    /\ WfsrAfterStep(r, EventStop(r.emu.event))
    /\ call' = [call EXCEPT !.op = "wait_for_stop_reason",
                            !.since = IF call.conn # <<>> THEN @ + 1 ELSE @]

\* one iteration of the loop of wait_for_stop_reason. conn.peek() is Ok(Some)
\* when a byte is waiting; with none waiting it is Ok(None), and conn.read()
\* then blocks until one arrives, or it fails and the iteration steps
PollIterEnabled == gdb.phase = "running" /\ call.since <= PollInterval + 1

PollIter ==
    /\ PollIterEnabled
    /\ \E peek_ok \in BOOLEAN :
        /\ call.conn # <<>> => peek_ok
        /\ IF exec_state = "End"
           THEN /\ stop' = StopReason("DoneStep", Zero64)
                /\ gdb' = Returned("stopped")
                /\ call' = [call EXCEPT !.op = "wait_for_stop_reason"]
                /\ UNCHANGED <<registers, pc, npc, data, mmio_regions,
                               is_last_mmio, exec_state, exec_mode, event,
                               execption, event_list, breakpoints,
                               watchpoints, cache_capacity, cache, config,
                               ref_emu>>
           ELSE IF poll_due(gdb.delay_cycles) /\ peek_ok
           THEN IF call.conn # <<>> THEN PollRead
                ELSE /\ gdb' = [gdb EXCEPT !.phase = "reading"]
                     /\ call' = [call EXCEPT !.op = "wait_for_stop_reason"]
                     /\ UNCHANGED <<registers, pc, npc, data, mmio_regions,
                                    is_last_mmio, exec_state, exec_mode, event,
                                    execption, event_list, breakpoints,
                                    watchpoints, cache_capacity, cache, config,
                                    ref_emu, stop>>
           ELSE PollStepped(step(Emu))

\* the blocked conn.read() of an iteration returns
PollReadReturns ==
    /\ gdb.phase = "reading"
    /\ PollRead

\* the event loop of the stub after IncomingData(byte): the interrupt byte
\* makes it call on_interrupt and report its stop reason, any other byte
\* leaves the target running and wait_for_stop_reason is called again
OnIncomingData ==
    /\ gdb.phase = "incoming"
    /\ IF IsInterrupt(call.byte)
       THEN /\ stop' = StopReason("Signal", SIGINT)
            /\ gdb' = Returned("stopped")
            /\ call' = [call EXCEPT !.op = "on_interrupt"]
       ELSE /\ stop' = NoStop
            /\ gdb' = Returned("resumed")
            /\ call' = PollCall("incoming_data", call.conn, 0, 0)
    /\ UNCHANGED <<registers, pc, npc, data, mmio_regions, is_last_mmio, exec_state,
                   exec_mode, event, execption, event_list, breakpoints,
                   watchpoints, cache_capacity, cache, config, ref_emu>>

\* the debugger resumes the target after the interrupt
PollResume ==
    /\ gdb.phase = "stopped"
    /\ gdb' = Returned("resumed")
    /\ stop' = NoStop
    /\ call' = PollCall("resume", call.conn, 0, 0)
    /\ UNCHANGED <<registers, pc, npc, data, mmio_regions, is_last_mmio, exec_state,
                   exec_mode, event, execption, event_list, breakpoints,
                   watchpoints, cache_capacity, cache, config, ref_emu>>

PollNext ==
    \/ \E b \in ConnBytes : ByteArrives(b)
    \/ PollEnter
    \/ PollIter
    \/ PollReadReturns
    \/ OnIncomingData
    \/ PollResume

SpecPoll == PollInit /\ [][PollNext]_vars

\* the loop of wait_for_stop_reason is the running thread of the process and
\* the event loop of the stub calls it again: each of their steps is taken
\* when it stays possible. The last conjunct is WF_vars(PollIter), with
\* ENABLED <<PollIter>>_vars written as the guard of PollIter
SpecPollFair ==
    /\ SpecPoll
    /\ WF_vars(PollEnter) /\ WF_vars(PollReadReturns) /\ WF_vars(OnIncomingData)
    /\ (<>[]PollIterEnabled => []<><<PollIter>>_vars)

\* a byte from the debugger is waiting in a Continue run
BytePending == call.conn # <<>> /\ gdb.phase \in {"resumed", "running", "reading"}

\* wait_for_stop_reason has returned IncomingData
ReturnedIncoming == gdb.phase = "incoming" /\ stop.reason = "IncomingData"

\* while a byte is pending at most a full interval of steps and one more are
\* made; IncomingData carries the byte that was pending and takes it off the
\* connection; on_interrupt reports Signal(SIGINT)
PollBounded ==
    /\ BytePending => call.since <= PollInterval + 1
    /\ ReturnedIncoming =>
          /\ call.since <= PollInterval + 1
          /\ stop.addr = U64(call.byte)
          /\ call.conn = <<>>
    /\ call.op = "on_interrupt" => stop = StopReason("Signal", SIGINT)

\* C25: in Continue mode the connection is polled at least once every 1001
\* executed instructions: if a byte from the debugger is pending,
\* wait_for_stop_reason returns IncomingData with that byte after at most
\* about 1000 further steps, and on_interrupt then yields the stop reason
\* Signal(SIGINT)
C25_poll_bounded_response ==
    /\ []PollBounded
    /\ \A b \in ConnBytes :
          (BytePending /\ Head(call.conn) = b) ~> (ReturnedIncoming /\ call.byte = b)
    /\ (ReturnedIncoming /\ IsInterrupt(call.byte)) ~>
          (call.op = "on_interrupt" /\ stop = StopReason("Signal", SIGINT))

\* C25 scenario: the interrupt byte, sent when delay_cycles was 0, has been
\* returned after a full interval of steps and on_interrupt has answered
C25_witness ==
    /\ call.op = "on_interrupt"
    /\ call.since = PollInterval
    /\ IsInterrupt(call.byte)
    /\ stop = StopReason("Signal", SIGINT)


---------------------------------------------------------------------------
(* The 32-bit (W) instructions and the shift counts *)

\* the values of x1: 0x1234_5678_9abc_def0, 0x8000_0001, 0xffff_ffff_7fff_ffff
\* and -1
WideLhs ==
    {<<\hdef0, \h9abc, \h5678, \h1234>>, <<1, 32768, 0, 0>>,
     <<65535, 32767, 65535, 65535>>, Max64}

\* the values of x2: 0, 31, 33, 63, 0xffff_ffff_ffff_ffe1 and 0x1_0000_0003
WideRhs ==
    {Zero64, U64(31), U64(33), U64(63), <<\hffe1, 65535, 65535, 65535>>,
     <<3, 0, 1, 0>>}

\* addiw x3,x1,-1; addiw x3,x1,0x678; slliw x3,x1,31; slliw x3,x1,4;
\* srliw x3,x1,1; srliw x3,x1,0; sraiw x3,x1,4; sraiw x3,x1,31; addw, subw,
\* sllw, srlw, sraw, mulw x3,x1,x2; sll, srl, sra x3,x1,x2; slli x3,x1,63;
\* srli x3,x1,33; srai x3,x1,63
WideWords ==
    {<<\h819b, \hfff0>>, <<\h819b, \h6780>>, <<\h919b, \h01f0>>, <<\h919b, \h0040>>,
     <<\hd19b, \h0010>>, <<\hd19b, \h0000>>, <<\hd19b, \h4040>>, <<\hd19b, \h41f0>>,
     <<\h81bb, \h0020>>, <<\h81bb, \h4020>>, <<\h91bb, \h0020>>, <<\hd1bb, \h0020>>,
     <<\hd1bb, \h4020>>, <<\h81bb, \h0220>>,
     <<\h91b3, \h0020>>, <<\hd1b3, \h0020>>, <<\hd1b3, \h4020>>,
     <<\h9193, \h03f0>>, <<\hd193, \h0210>>, <<\hd193, \h43f0>>}

\* Emulator::new with enable_m, x1 and x2 holding the operands
WideInit ==
    /\ \E lhs \in WideLhs, rhs \in WideRhs :
          registers = [r \in 0..31 |-> IF r = 1 THEN lhs ELSE IF r = 2 THEN rhs
                                       ELSE Zero64]
    /\ pc = memory_base
    /\ npc = memory_base
    /\ data = Image(<<>>)
    /\ mmio_regions = <<UartRegion>>
    /\ is_last_mmio = FALSE
    /\ exec_state = "Running"
    /\ exec_mode = Continue
    /\ event = EventNone
    /\ execption = NoException
    /\ event_list = RingBuffer_new(EventListSize)
    /\ breakpoints = {}
    /\ watchpoints = {}
    /\ cache_capacity = 0
    /\ cache = {}
    /\ config = InstDecoderArgs(TRUE, FALSE, FALSE)
    /\ ref_emu = NoReference
    /\ gdb = [phase |-> "detached", cnt |-> 0, delay_cycles |-> 0]
    /\ stop = NoStop
    /\ call = ExecCall(<<0, 0>>, "None", memory_base, registers, NoException, "Ok", 0)

WideNext == \E inst \in WideWords : Execute(inst)

SpecWide == WideInit /\ [][WideNext]_vars

\* the low n bits of a register as a number (n <= 6)
RECURSIVE CountBits(_, _)
CountBits(v, n) ==
    IF n = 0 THEN 0 ELSE Bit(v, n - 1) * (2 ^ (n - 1)) + CountBits(v, n - 1)

\* a 32-bit value given by its bits, sign-extended to 64 bits
Wide(f) == FromBits([i \in 0..63 |-> IF i < 32 THEN f[i] ELSE f[31]])

\* the sum and the difference of the low 32 bits, bit by bit with the carry
\* (the borrow) running upwards
RECURSIVE CarryInto(_, _, _)
CarryInto(a, b, i) ==
    IF i = 0 THEN 0
    ELSE (Bit(a, i - 1) + Bit(b, i - 1) + CarryInto(a, b, i - 1)) \div 2

Sum32(a, b) ==
    Wide([i \in 0..31 |-> (Bit(a, i) + Bit(b, i) + CarryInto(a, b, i)) % 2])

RECURSIVE BorrowInto(_, _, _)
BorrowInto(a, b, i) ==
    IF i = 0 THEN 0
    ELSE IF Bit(a, i - 1) - Bit(b, i - 1) - BorrowInto(a, b, i - 1) < 0 THEN 1 ELSE 0

Difference32(a, b) ==
    Wide([i \in 0..31 |-> (Bit(a, i) - Bit(b, i) - BorrowInto(a, b, i) + 2) % 2])

\* the product of the low 32 bits: a shifted to each set bit of b, summed
RECURSIVE Product32(_, _, _, _)
Product32(a, b, i, acc) ==
    IF i = 32 \/ acc = <<>> THEN acc
    ELSE Product32(a, b, i + 1,
                   IF Bit(b, i) = 1
                   THEN Sum32(acc, Wide([j \in 0..31 |->
                                           IF j >= i THEN Bit(a, j - i) ELSE 0]))
                   ELSE acc)

\* the I-immediate of the word as a register value
WideImm == parse_format_i(call.inst).imm

\* what a W instruction must write: the operation on the low 32 bits of the
\* operands, the shift count taken from its low 5 bits, sign-extended
WideExpected(name, a, b, imm) ==
    CASE name = "addiw" -> Sum32(a, imm)
      [] name = "addw"  -> Sum32(a, b)
      [] name = "subw"  -> Difference32(a, b)
      [] name = "mulw"  -> Product32(a, b, 0, Zero64)
      [] name \in {"slliw", "sllw"} ->
            LET s == CountBits(IF name = "sllw" THEN b ELSE imm, 5)
            IN  Wide([i \in 0..31 |-> IF i >= s THEN Bit(a, i - s) ELSE 0])
      [] name \in {"srliw", "srlw"} ->
            LET s == CountBits(IF name = "srlw" THEN b ELSE imm, 5)
            IN  Wide([i \in 0..31 |-> IF i + s < 32 THEN Bit(a, i + s) ELSE 0])
      [] name \in {"sraiw", "sraw"} ->
            LET s == CountBits(IF name = "sraw" THEN b ELSE imm, 5)
            IN  Wide([i \in 0..31 |-> IF i + s < 32 THEN Bit(a, i + s) ELSE Bit(a, 31)])

\* what a 64-bit shift must write: the count taken from its low 6 bits
ShiftExpected(name, a, b, imm) ==
    LET s == CountBits(IF name \in {"sll", "srl", "sra"} THEN b ELSE imm, 6)
    IN  CASE name \in {"sll", "slli"} ->
               FromBits([i \in 0..63 |-> IF i >= s THEN Bit(a, i - s) ELSE 0])
          [] name \in {"srl", "srli"} ->
               FromBits([i \in 0..63 |-> IF i + s < 64 THEN Bit(a, i + s) ELSE 0])
          [] name \in {"sra", "srai"} ->
               FromBits([i \in 0..63 |-> IF i + s < 64 THEN Bit(a, i + s)
                                         ELSE Bit(a, 63)])

WideNames ==
    {"addiw", "addw", "subw", "sllw", "srlw", "sraw", "slliw", "srliw", "sraiw",
     "mulw"}

ShiftNames == {"sll", "srl", "sra", "slli", "srli", "srai"}

\* the registers before the last handler with bits 32..63 of x1 and x2 inverted
UpperInverted ==
    [r \in 0..31 |->
        IF r \in {1, 2}
        THEN <<call.before[r][1], call.before[r][2],
               65535 - call.before[r][3], 65535 - call.before[r][4]>>
        ELSE call.before[r]]

\* what the last handler writes to rd when started from the registers regs
Rerun(regs) ==
    execute(call.name, [Emu EXCEPT !.registers = regs], call.inst,
            call.ipc).emu.registers[Rd]

\* C31: each *W instruction (ADDIW, ADDW, SUBW, SLLW, SRLW, SRAW, SLLIW,
\* SRLIW, SRAIW, MULW) computes on the low 32 bits of its operands, masks
\* shift counts to 5 bits, and writes the 32-bit result sign-extended to 64
\* bits (bits 63..32 of rd all equal bit 31), independent of the upper 32
\* bits of the source registers; the 64-bit shifts mask the count to 6 bits
C31_word_instructions ==
    /\ Ran(WideNames) =>
          /\ call.ret = "Ok" /\ execption = call.was /\ OthersKept
          /\ registers[Rd] =
                WideExpected(call.name, call.before[Rs1], call.before[Rs2], WideImm)
          /\ \A i \in 32..63 : Bit(registers[Rd], i) = Bit(registers[Rd], 31)
          /\ Rerun(UpperInverted) = registers[Rd]
    /\ Ran(ShiftNames) =>
          /\ call.ret = "Ok" /\ execption = call.was /\ OthersKept
          /\ registers[Rd] =
                ShiftExpected(call.name, call.before[Rs1], call.before[Rs2], WideImm)

\* C31 scenario: SLLW with the count register holding 33 has shifted the low
\* word 0x8000_0001 by one place, and the result 2 has no sign to extend
C31_witness ==
    /\ Ran({"sllw"})
    /\ call.before[Rs1] = <<1, 32768, 0, 0>>
    /\ call.before[Rs2] = U64(33)
    /\ registers[Rd] = U64(2)

---------------------------------------------------------------------------
(* Loads and stores *)

\* the handlers invoked in one run of loads and stores
MaxAccesses == 2

\* RAM at the start: 0xdeadbeefcafebabe at memory_base, then 01 7f 03 80
Prog_pattern == << <<\hbabe, \hcafe>>, <<\hbeef, \hdead>>, <<\h7f01, \h8003>> >>

\* the values of x1: memory_base, memory_base + 1 and the last two bytes of RAM
AccessBases ==
    {memory_base, wrapping_add(memory_base, U64(1)),
     wrapping_add(memory_base, U64(memory_size - 2))}

\* the values of x2
AccessValues == {<<\hbabe, \hcafe, \hbeef, \hdead>>, <<\h807f, \h89ab, \h4567, \h0123>>}

\* sb, sh, sw, sd x2,0(x1); sd x2,-1(x1); sh x2,3(x1); lb, lh, lw, ld, lbu,
\* lhu, lwu x3,0(x1); ld x3,-1(x1); lw x3,3(x1); lh x3,7(x1)
AccessWords ==
    {<<\h8023, \h0020>>, <<\h9023, \h0020>>, <<\ha023, \h0020>>, <<\hb023, \h0020>>,
     <<\hbfa3, \hfe20>>, <<\h91a3, \h0020>>,
     <<\h8183, \h0000>>, <<\h9183, \h0000>>, <<\ha183, \h0000>>, <<\hb183, \h0000>>,
     <<\hc183, \h0000>>, <<\hd183, \h0000>>, <<\he183, \h0000>>,
     <<\hb183, \hfff0>>, <<\ha183, \h0030>>, <<\h9183, \h0070>>}

\* the address of the access of a load or store word, from the registers regs
EffectiveAddr(inst, regs) ==
    wrapping_add(regs[Field(inst, 15)],
                 IF Opcode(inst) = 3 THEN parse_format_i(inst).imm
                 ELSE parse_format_s(inst).imm)

\* a handler call with the RAM before it and the call before it
LoadStoreCall(c, ram, prev) ==
    [op |-> c.op, inst |-> c.inst, name |-> c.name, ipc |-> c.ipc,
     before |-> c.before, was |-> c.was, ret |-> c.ret, n |-> c.n,
     ram |-> ram, prev |-> prev]

\* what is kept of the call before: its handler, its result, the address and
\* the value of rs2
NoAccess == [name |-> "None", ret |-> "Ok", addr |-> Zero64, value |-> Zero64]

AccessInit ==
    /\ \E base \in AccessBases, value \in AccessValues :
          registers = [r \in 0..31 |-> IF r = 1 THEN base ELSE IF r = 2 THEN value
                                       ELSE Zero64]
    /\ pc = memory_base
    /\ npc = memory_base
    /\ data = Image(Prog_pattern)
    /\ mmio_regions = <<UartRegion>>
    /\ is_last_mmio = FALSE
    /\ exec_state = "Running"
    /\ exec_mode = Continue
    /\ event = EventNone
    /\ execption = NoException
    /\ event_list = RingBuffer_new(EventListSize)
    /\ breakpoints = {}
    /\ watchpoints = {}
    /\ cache_capacity = 0
    /\ cache = {}
    /\ config = InstDecoderArgs(FALSE, FALSE, FALSE)
    /\ ref_emu = NoReference
    /\ gdb = [phase |-> "detached", cnt |-> 0, delay_cycles |-> 0]
    /\ stop = NoStop
    /\ call = LoadStoreCall(ExecCall(<<0, 0>>, "None", memory_base, registers,
                                  NoException, "Ok", 0), data, NoAccess)

\* the handler of the load or store word returned r
AccessReturns(inst, name, r) ==
    /\ Becomes(r.emu)
    /\ call' = LoadStoreCall(ExecCall(inst, name, npc, registers, execption, r.ret,
                                   call.n + 1),
                          data,
                          [name |-> call.name, ret |-> call.ret,
                           addr |-> EffectiveAddr(call.inst, call.before),
                           value |-> call.before[Field(call.inst, 20)]])
    /\ UNCHANGED <<gdb, stop>>

\* step_internal for the load or store word inst
Access(inst) ==
    /\ call.n < MaxAccesses
    /\ call.ret = "Ok"
    /\ slow_path(Emu, inst).ret = "Ok"
    /\ AccessReturns(inst, slow_path(Emu, inst).name, Executing(inst))

AccessNext == \E inst \in AccessWords : Access(inst)

SpecAccess == AccessInit /\ [][AccessNext]_vars

\* the address of the last access and its offset in RAM
LastAddr == EffectiveAddr(call.inst, call.before)
LastOffset == wrapping_sub(LastAddr, memory_base)

\* the last access lies in RAM
LastInRam ==
    /\ FitsNat(LastOffset)
    /\ ToNat(LastOffset) + AccessSize(call.name) <= memory_size

\* the register value made of the n bytes of ram at offset o, the rest filled
\* with the sign of the last byte or with zeros
Loaded(ram, o, n, signed) ==
    LET fill == IF signed /\ ram[o + n - 1] >= 128 THEN 255 ELSE 0
        b == [k \in 0..7 |-> IF k < n THEN ram[o + k] ELSE fill]
    IN  <<b[0] + 256 * b[1], b[2] + 256 * b[3], b[4] + 256 * b[5],
          b[6] + 256 * b[7]>>

\* ram with the low n bytes of v at offset o
Stored(ram, o, n, v) ==
    [a \in DOMAIN ram |-> IF a >= o /\ a < o + n THEN ByteOf(v, a - o) ELSE ram[a]]

\* C32: loads and stores access the bus at rs1 + sign-extended immediate with
\* no alignment check: SB/SH/SW/SD store the low 8/16/32/64 bits of rs2,
\* LB/LH/LW sign-extend and LBU/LHU/LWU zero-extend the loaded value, so SD
\* followed by LD at the same RAM address returns the stored 64-bit value, and
\* a store changes no register
C32_loads_and_stores ==
    /\ (Ran(Loads) /\ LastInRam) =>
          /\ call.ret = "Ok" /\ execption = call.was /\ OthersKept
          /\ data = call.ram
          /\ registers[Rd] =
                Loaded(call.ram, ToNat(LastOffset), AccessSize(call.name),
                       call.name \in {"lb", "lh", "lw"})
    /\ (Ran(Stores) /\ LastInRam) =>
          /\ call.ret = "Ok" /\ execption = call.was
          /\ registers = call.before
          /\ data = Stored(call.ram, ToNat(LastOffset), AccessSize(call.name),
                           call.before[Rs2])
    /\ (Ran({"ld"}) /\ call.prev.name = "sd" /\ call.prev.ret = "Ok"
          /\ call.prev.addr = LastAddr) =>
          /\ call.ret = "Ok"
          /\ registers[Rd] = call.prev.value

\* C32 scenario: SD at an address that is not a multiple of 8, then LD at that
\* address has returned the stored 0xdeadbeefcafebabe
C32_witness ==
    /\ Ran({"ld"})
    /\ call.prev.name = "sd"
    /\ call.prev.addr = LastAddr
    /\ LastAddr[1] % 8 # 0
    /\ call.ram # Image(Prog_pattern)
    /\ registers[Rd] = <<\hbabe, \hcafe, \hbeef, \hdead>>

---------------------------------------------------------------------------
(* Bit slices (utils/bit_utils.rs) *)

\* u32::MAX as a u64, and the all-ones word of a width
MaxU32 == <<65535, 65535, 0, 0>>
MaxOf(bits) == IF bits = 64 THEN Max64 ELSE MaxU32

\* the builds: overflow checks on (debug) or off (release)
Builds == {"debug", "release"}

\* a result of a BitSlice method: the word after it and the value returned
BitOk(word, value) == [ret |-> "Ok", word |-> word, value |-> value]
BitPanic(word) == [ret |-> "Panic", word |-> word, value |-> Zero64]

\* `1 << n` on a word of the width bits: the count is taken modulo the width
\* when the overflow check is off
ShlOne(n, bits) == And64(Shl64(U64(1), n % bits), MaxOf(bits))

\* `(1 << n) - 1`
LowMask(n, bits) == And64(wrapping_sub(ShlOne(n, bits), U64(1)), MaxOf(bits))

\* BitSlice::bit
BitSlice_bit(word, bits, pos) ==
    IF ~(pos < bits) THEN BitPanic(word)
    ELSE BitOk(word, IF And64(word, ShlOne(pos, bits)) # Zero64 THEN U64(1)
                     ELSE Zero64)

\* BitSlice::bit_range
BitSlice_bit_range(word, bits, start, end) ==
    IF ~(end <= bits) THEN BitPanic(word)
    ELSE IF ~(start <= end) THEN BitPanic(word)
    ELSE IF start = end THEN BitOk(word, Zero64)
    ELSE BitOk(word, Shr64(And64(word, IF end = bits THEN MaxOf(bits)
                                       ELSE LowMask(end, bits)), start))

\* BitSlice::set_bit
BitSlice_set_bit(word, bits, pos, value) ==
    IF ~(pos < bits) THEN BitPanic(word)
    ELSE IF value THEN BitOk(Or64(word, ShlOne(pos, bits)), Zero64)
    ELSE BitOk(And64(word, Xor64(ShlOne(pos, bits), MaxOf(bits))), Zero64)

\* a set_bit_range without the shifts by the whole width
set_bit_range_done(word, bits, start, end, value) ==
    LET mask == Xor64(IF end = bits THEN MaxOf(bits) ELSE LowMask(end, bits),
                      LowMask(start, bits))
    IN  BitOk(Or64(And64(word, Xor64(mask, MaxOf(bits))),
                   And64(And64(Shl64(And64(value, MaxOf(bits)), start % bits),
                               MaxOf(bits)), mask)),
              Zero64)

\* BitSlice::set_bit_range. `(1 << range.start) - 1` and `value << range.start`
\* shift by the whole width when start = end = width: the shift panics in a
\* build with overflow checks and takes the count modulo the width in one
\* without
BitSlice_set_bit_range(word, bits, start, end, value, build) ==
    IF ~(end <= bits) THEN BitPanic(word)
    ELSE IF ~(start <= end) THEN BitPanic(word)
    ELSE IF ~LeU(value, IF end - start = bits THEN MaxOf(bits)
                        ELSE wrapping_sub(Shl64(U64(1), end - start), U64(1)))
    THEN BitPanic(word)
    ELSE IF start = bits /\ build = "debug" THEN BitPanic(word)
    ELSE set_bit_range_done(word, bits, start, end, value)

\* the widths of the words, the words, the positions and the values tried
BitWidths == {32, 64}
BitWords(bits) ==
    {And64(w, MaxOf(bits)) : w \in {Zero64, Max64, <<\hdef0, \h9abc, \h5678, \h1234>>}}
BitPositions == {0, 1, 16, 31, 32, 33, 63, 64, 65}

\* the values tried for a range of n bits: 0, 1, the widest that fits, a
\* pattern cut to n bits, and the narrowest that does not fit
BitValues(n, bits) ==
    IF n < 0 \/ n > bits THEN {Zero64, U64(1)}
    ELSE LET fits == IF n = 64 THEN Max64
                     ELSE wrapping_sub(Shl64(U64(1), n), U64(1))
         IN  {Zero64, U64(1), fits, And64(<<\ha5a5, \h5a5a, \hc3c3, \h3c3c>>, fits)}
             \cup (IF n = 64 THEN {} ELSE {Shl64(U64(1), n)})

\* a call of a BitSlice method on a word of the width bits
BitCall(op, bits, before, start, end, value, r, readback) ==
    [op |-> op, bits |-> bits, before |-> before, start |-> start, end |-> end,
     value |-> value, ret |-> r.ret, word |-> r.word, returned |-> r.value,
     read |-> readback]

\* nothing called yet on the word
BitInit ==
    /\ registers = [r \in 0..31 |-> Zero64]
    /\ pc = memory_base
    /\ npc = memory_base
    /\ data = Image(<<>>)
    /\ mmio_regions = <<UartRegion>>
    /\ is_last_mmio = FALSE
    /\ exec_state = "Idle"
    /\ exec_mode = Continue
    /\ event = EventNone
    /\ execption = NoException
    /\ event_list = RingBuffer_new(EventListSize)
    /\ breakpoints = {}
    /\ watchpoints = {}
    /\ cache_capacity = 0
    /\ cache = {}
    /\ config = InstDecoderArgs(FALSE, FALSE, FALSE)
    /\ ref_emu = NoReference
    /\ gdb = [phase |-> "detached", cnt |-> 0, delay_cycles |-> 0]
    /\ stop = NoStop
    /\ \E bits \in BitWidths : \E word \in BitWords(bits) :
          call = BitCall("new", bits, word, 0, 0, Zero64, BitOk(word, Zero64),
                         BitOk(word, Zero64))

BitUnchanged ==
    UNCHANGED <<registers, pc, npc, data, mmio_regions, is_last_mmio, exec_state,
                exec_mode, event, execption, event_list, breakpoints, watchpoints,
                cache_capacity, cache, config, ref_emu, gdb, stop>>

\* x.bit(pos)
CallBit(pos) ==
    /\ call.op = "new"
    /\ call' = BitCall("bit", call.bits, call.word, pos, pos, Zero64,
                       BitSlice_bit(call.word, call.bits, pos),
                       BitOk(call.word, Zero64))
    /\ BitUnchanged

\* x.bit_range(start..end)
CallBitRange(start, end) ==
    /\ call.op = "new"
    /\ call' = BitCall("bit_range", call.bits, call.word, start, end, Zero64,
                       BitSlice_bit_range(call.word, call.bits, start, end),
                       BitOk(call.word, Zero64))
    /\ BitUnchanged

\* x.set_bit(pos, value), then x.bit(pos) when it returned
CallSetBit(pos, value) ==
    /\ call.op = "new"
    /\ call' = BitCall("set_bit", call.bits, call.word, pos, pos,
                       IF value THEN U64(1) ELSE Zero64,
                       BitSlice_set_bit(call.word, call.bits, pos, value),
                       BitSlice_bit(BitSlice_set_bit(call.word, call.bits, pos,
                                                     value).word,
                                    call.bits, pos))
    /\ BitUnchanged

\* x.set_bit_range(start..end, value), then x.bit_range(start..end) when it
\* returned
CallSetBitRange(start, end, value, build) ==
    /\ call.op = "new"
    /\ call' = BitCall("set_bit_range", call.bits, call.word, start, end, value,
                       BitSlice_set_bit_range(call.word, call.bits, start, end,
                                              value, build),
                       BitSlice_bit_range(
                           BitSlice_set_bit_range(call.word, call.bits, start,
                                                  end, value, build).word,
                           call.bits, start, end))
    /\ BitUnchanged

BitNext ==
    \/ \E pos \in BitPositions : CallBit(pos)
    \/ \E start \in BitPositions, end \in BitPositions : CallBitRange(start, end)
    \/ \E pos \in BitPositions, value \in BOOLEAN : CallSetBit(pos, value)
    \/ \E start \in BitPositions, end \in BitPositions, build \in Builds :
          \E value \in BitValues(end - start, call.bits) :
             CallSetBitRange(start, end, value, build)

SpecBits == BitInit /\ [][BitNext]_vars

\* the range of the last call is valid for the word
ValidRange == call.start <= call.end /\ call.end <= call.bits

\* the value of the last call fits the range
ValueFits ==
    \/ call.end - call.start >= 64
    \/ LtU(call.value, Shl64(U64(1), call.end - call.start))

\* the bits start..end-1 of a word, as a number read bit by bit
BitsOf(word, start, end) ==
    FromBits([i \in 0..63 |-> IF start + i < end THEN Bit(word, start + i) ELSE 0])

\* C33: for u32 and u64 words, any valid range lo..hi (lo <= hi <= width) and
\* value v < 2^(hi-lo): after set_bit_range(lo..hi, v), bit_range(lo..hi)
\* returns v and every bit outside [lo, hi) is unchanged; bit_range is
\* end-exclusive and an empty range reads 0; an out-of-bounds position or a
\* value too wide for the range aborts
C33_bit_range_round_trip ==
    /\ (call.op = "set_bit_range" /\ ValidRange /\ ValueFits) =>
          /\ call.ret = "Ok"
          /\ call.read.ret = "Ok" /\ call.read.value = call.value
          /\ \A i \in 0..(call.bits - 1) :
                (i < call.start \/ i >= call.end) =>
                    Bit(call.word, i) = Bit(call.before, i)
    /\ (call.op = "set_bit_range" /\ ~(ValidRange /\ ValueFits)) =>
          call.ret = "Panic" /\ call.word = call.before
    /\ (call.op = "bit_range" /\ ValidRange) =>
          /\ call.ret = "Ok" /\ call.word = call.before
          /\ call.returned = BitsOf(call.before, call.start, call.end)
          /\ call.start = call.end => call.returned = Zero64
    /\ (call.op = "bit_range" /\ ~ValidRange) => call.ret = "Panic"
    /\ (call.op \in {"bit", "set_bit"} /\ call.start >= call.bits) =>
          call.ret = "Panic" /\ call.word = call.before

\* C33 scenario: set_bit_range(width..width, 0) on a word that is not zero
\* has aborted, or has returned with the word cleared
C33_empty_range_at_width ==
    /\ call.op = "set_bit_range"
    /\ call.start = call.bits /\ call.end = call.bits
    /\ call.value = Zero64
    /\ call.before # Zero64
    /\ \/ call.ret = "Panic"
       \/ call.ret = "Ok" /\ call.word = Zero64

\* what holds of the bit slices: the round trip for every valid range that
\* does not start at the width, and the single-bit accessors
BitSlicesBelowWidth ==
    /\ (call.op = "set_bit_range" /\ ValidRange /\ ValueFits
          /\ call.start < call.bits) =>
          /\ call.ret = "Ok"
          /\ call.read.ret = "Ok" /\ call.read.value = call.value
          /\ \A i \in 0..(call.bits - 1) :
                (i < call.start \/ i >= call.end) =>
                    Bit(call.word, i) = Bit(call.before, i)
    /\ (call.op = "set_bit" /\ call.start < call.bits) =>
          /\ call.ret = "Ok" /\ call.read.value = call.value
          /\ \A i \in 0..(call.bits - 1) :
                i # call.start => Bit(call.word, i) = Bit(call.before, i)
    /\ (call.op = "bit" /\ call.start < call.bits) =>
          call.ret = "Ok" /\ call.returned = U64(Bit(call.before, call.start))

---------------------------------------------------------------------------
(* Devices mapped from the configuration (device_manager.rs) and accessed    *)
(* over the bus, with no sort_mmio_regions call                              *)

\* at most MaxDevices devices are configured
MaxDevices == 2

\* a DeviceConfig
DeviceConfig(name, device_type, base, size, enabled) ==
    [name |-> name, device_type |-> device_type, base |-> base, size |-> size,
     enabled |-> enabled]

\* the devices configured: three UARTs 16 bytes wide that are apart, one that
\* lies inside the first, and a device of a type the factory does not know
DeviceConfigs ==
    {DeviceConfig(d[1], d[2], d[3], U64(16), enabled) :
        d \in {<<"uart0", "uart", UartRegion.base>>,
               <<"uart1", "uart", wrapping_add(UartRegion.base, U64(256))>>,
               <<"uart2", "uart", <<0, 4097, 0, 0>>>>,
               <<"uart3", "uart", wrapping_add(UartRegion.base, U64(8))>>,
               <<"rtc0", "rtc", <<0, 4098, 0, 0>>>>},
        enabled \in BOOLEAN}

\* the configuration lists: each device at most once, in any order
DeviceLists ==
    UNION {{s \in [1..n -> DeviceConfigs] :
               \A i, j \in 1..n : i # j => s[i].name # s[j].name} :
           n \in 1..MaxDevices}

\* DeviceFactory::create_device: the device, or "Err" for an unknown type
create_device(cfg) == IF cfg.device_type = "uart" THEN "uart" ELSE "Err"

\* the loop of DeviceManager::initialize_devices from the k-th configuration
RECURSIVE initialize_devices(_, _, _, _)
initialize_devices(regions, device_configs, k, overflow_checks) ==
    IF k > Len(device_configs) THEN [ret |-> "Ok", regions |-> regions]
    ELSE IF ~device_configs[k].enabled
    THEN initialize_devices(regions, device_configs, k + 1, overflow_checks)
    ELSE IF create_device(device_configs[k]) = "Err"
    THEN [ret |-> "Err", regions |-> regions]
    ELSE LET mapped == map_mmio(regions, device_configs[k].base,
                                device_configs[k].size,
                                create_device(device_configs[k]), overflow_checks)
         IN  IF mapped.ret = "Panic" THEN [ret |-> "Panic", regions |-> regions]
             ELSE IF mapped.ret # "Ok" THEN [ret |-> "Err", regions |-> regions]
             ELSE initialize_devices(mapped.regions, device_configs, k + 1,
                                     overflow_checks)

\* the addresses accessed: the first and the ninth byte of each UART, and an
\* address between the devices
DeviceProbes ==
    UNION {{c.base, wrapping_add(c.base, U64(8))} : c \in DeviceConfigs}
    \cup {wrapping_add(UartRegion.base, U64(128))}

\* the record of the last call: the configuration, the build, the operation,
\* the address accessed, what it returned, the region it was dispatched to
\* (0 for none) and the offset
DeviceCall(device_configs, overflow_checks, op, addr, ret, err, dev, offset) ==
    [device_configs |-> device_configs, overflow_checks |-> overflow_checks,
     op |-> op, addr |-> addr, ret |-> ret, err |-> err, dev |-> dev,
     offset |-> offset]

\* Memory::new, and a configuration read
DeviceInit ==
    /\ registers = [r \in 0..31 |-> Zero64]
    /\ pc = memory_base
    /\ npc = memory_base
    /\ data = Image(<<>>)
    /\ mmio_regions = <<>>
    /\ is_last_mmio = FALSE
    /\ exec_state = "Idle"
    /\ exec_mode = Continue
    /\ event = EventNone
    /\ execption = NoException
    /\ event_list = RingBuffer_new(EventListSize)
    /\ breakpoints = {}
    /\ watchpoints = {}
    /\ cache_capacity = 0
    /\ cache = {}
    /\ config = InstDecoderArgs(FALSE, FALSE, FALSE)
    /\ ref_emu = NoReference
    /\ gdb = [phase |-> "detached", cnt |-> 0, delay_cycles |-> 0]
    /\ stop = NoStop
    /\ \E device_configs \in DeviceLists, overflow_checks \in BOOLEAN :
          call = DeviceCall(device_configs, overflow_checks, "new", Zero64, "Ok",
                            NoError, 0, Zero64)

\* initialize_devices(memory, device_configs) returned r
DevicesInitialized(r) ==
    BusReturns([Emu EXCEPT !.mmio_regions = r.regions],
               DeviceCall(call.device_configs, call.overflow_checks,
                          "initialize_devices", Zero64, r.ret, NoError, 0, Zero64))

InitializeDevices ==
    /\ call.op = "new"
    /\ DevicesInitialized(initialize_devices(mmio_regions, call.device_configs, 1,
                                             call.overflow_checks))

\* the devices are mapped
DevicesReady == call.op # "new" /\ call.ret # "Panic" /\
                (call.op = "initialize_devices" => call.ret = "Ok")

\* a one-byte read of a device address returned res
DeviceReadDone(addr, res) ==
    BusReturns(AfterRead(Emu, res),
               DeviceCall(call.device_configs, call.overflow_checks, "read", addr,
                          IF res.ok THEN "Ok" ELSE "Err", res.err, res.dev,
                          res.offset))

DeviceRead ==
    /\ DevicesReady
    /\ \E addr \in DeviceProbes : DeviceReadDone(addr, read(Emu, addr, 1))

\* a one-byte write to a device address returned res
DeviceWriteDone(addr, res) ==
    BusReturns(res.emu,
               DeviceCall(call.device_configs, call.overflow_checks, "write", addr,
                          IF res.ok THEN "Ok" ELSE "Err", res.err, res.dev,
                          res.offset))

DeviceWrite ==
    /\ DevicesReady
    /\ \E addr \in DeviceProbes : DeviceWriteDone(addr, write(Emu, addr, <<65>>))

DeviceNext ==
    \/ InitializeDevices
    \/ DeviceRead
    \/ DeviceWrite

SpecDevices == DeviceInit /\ [][DeviceNext]_vars

\* C34: MMIO lookup does not depend on the order in which devices were
\* mapped: after any sequence of successful map_mmio calls (as
\* DeviceManager::initialize_devices performs them, with no sort_mmio_regions
\* call), every address inside a mapped region is found and dispatched to its
\* device rather than reported OutOfBounds
C34_lookup_any_order ==
    call.op \in {"read", "write"} =>
        \A i \in Containing(mmio_regions, call.addr) :
            /\ call.dev = i
            /\ call.offset = wrapping_sub(call.addr, mmio_regions[i].base)
            /\ call.err # OutOfBounds(call.addr, 1)

\* C34 scenario: uart1 was configured before uart0, both are mapped, and a
\* read of the first byte of uart1 came back OutOfBounds
C34_mapped_first_missed ==
    /\ call.op = "read"
    /\ Len(call.device_configs) = 2
    /\ call.device_configs[1].name = "uart1" /\ call.device_configs[1].enabled
    /\ call.device_configs[2].name = "uart0" /\ call.device_configs[2].enabled
    /\ Len(mmio_regions) = 2
    /\ call.addr = mmio_regions[1].base
    /\ Containing(mmio_regions, call.addr) = {1}
    /\ call.ret = "Err"
    /\ call.err = OutOfBounds(call.addr, 1)

\* the bases of the regions ascend
Ascending(regions) ==
    \A i, j \in 1..Len(regions) : i < j => LtU(regions[i].base, regions[j].base)

\* what holds of the lookup: the mapped regions are the enabled devices in the
\* order configured, and when their bases ascend every address of a region is
\* dispatched to its device
LookupWhenAscending ==
    /\ call.op # "new" =>
          /\ \A i \in 1..Len(mmio_regions) :
                \E k \in 1..Len(call.device_configs) :
                    /\ call.device_configs[k].enabled
                    /\ call.device_configs[k].base = mmio_regions[i].base
          /\ \A i, j \in 1..Len(mmio_regions) :
                i < j => \E k, l \in 1..Len(call.device_configs) :
                            /\ k < l
                            /\ call.device_configs[k].base = mmio_regions[i].base
                            /\ call.device_configs[l].base = mmio_regions[j].base
    /\ (call.op \in {"read", "write"} /\ Ascending(mmio_regions)) =>
          \A i \in Containing(mmio_regions, call.addr) :
              /\ call.dev = i
              /\ call.offset = wrapping_sub(call.addr, mmio_regions[i].base)
              /\ call.err # OutOfBounds(call.addr, 1)

---------------------------------------------------------------------------
(* The End state *)

\* C35: once exec_state is End (after a Halted event) it stays End and no
\* further instruction is executed: a later call to step(), to steps(n) for
\* any n >= 0, or to wait_for_stop_reason neither runs an instruction nor
\* moves exec_state back to Running or Idle
C35_end_is_final ==
    (call.found = "End" /\ call.op \in {"step", "steps", "wait_for_stop_reason"}) =>
        /\ exec_state = "End"
        /\ \A k \in Steps : ~Invoked(Trace[k])

\* C35 scenario: step() called at End has executed the instruction after the
\* EBREAK and left exec_state at Idle
C35_stepped_after_end ==
    /\ call.op = "step"
    /\ call.found = "End"
    /\ call.ret = "Ok"
    /\ Len(Trace) = 1
    /\ Trace[1].stage = "done"
    /\ exec_state = "Idle"

\* what holds at End: no call other than step and steps leaves it
EndKeptByOtherCalls ==
    (call.found = "End" /\ call.op \notin {"step", "steps"}) => exec_state = "End"


---------------------------------------------------------------------------
(* The register file read and written back by the debugger between steps *)

\* at most MaxStopCalls calls are made
MaxStopCalls == 4

\* the record of the last call: the operation, how many calls were made, the
\* pc, next pc and registers it found, what it returned and the steps it ran
StopCall(op, n, ret, trace) ==
    [op |-> op, n |-> n, ret |-> ret, trace |-> trace,
     was |-> [pc |-> pc, npc |-> npc, registers |-> registers]]

\* a program is loaded and the debugger is attached, the target stopped
StopInit ==
    /\ registers = [r \in 0..31 |-> Zero64]
    /\ pc = memory_base
    /\ npc = memory_base
    /\ \E prog \in Programs : data = Image(prog)
    /\ mmio_regions = <<UartRegion>>
    /\ is_last_mmio = FALSE
    /\ exec_state = "Idle"
    /\ exec_mode = ExecMode("Step", Zero64, Zero64)
    /\ event = EventNone
    /\ execption = NoException
    /\ event_list = RingBuffer_new(EventListSize)
    /\ breakpoints = {}
    /\ watchpoints = {}
    /\ cache_capacity = 0
    /\ cache = {}
    /\ config = InstDecoderArgs(FALSE, FALSE, FALSE)
    /\ ref_emu = NoReference
    /\ gdb = [phase |-> "stopped", cnt |-> 0, delay_cycles |-> 0]
    /\ stop = NoStop
    /\ call = StopCall("new", 0, "Ok", <<>>)

\* a call at a stop returned r ([ret, emu, trace])
StopReturns(op, r) ==
    /\ Becomes(r.emu)
    /\ call' = StopCall(op, call.n + 1, r.ret, r.trace)
    /\ UNCHANGED <<gdb, stop>>

\* the target is stopped and may be stepped or inspected
AtStop == call.n < MaxStopCalls /\ call.ret = "Ok" /\ exec_state # "End"

\* the step() of a single step
StopStep ==
    /\ AtStop
    /\ StopReturns("step", step(Emu))

\* a write_registers result as a call result
Written(w) == [ret |-> IF w.ok THEN "Ok" ELSE "Err", emu |-> w.emu, trace |-> <<>>]

\* read_registers, then write_registers with the values read
StopWriteBack ==
    /\ AtStop
    /\ StopReturns("write_back", Written(write_registers(Emu, read_registers(Emu))))

StopNext ==
    \/ StopStep
    \/ StopWriteBack

SpecWriteBack == StopInit /\ [][StopNext]_vars

\* C36: reading all registers through GDB (read_registers) and writing the
\* same values back (write_registers) at any stop is a no-op: pc, npc and
\* x1..x31 are unchanged, so the next step executes the same instruction it
\* would have executed without the read/write pair
C36_registers_round_trip ==
    /\ call.op = "write_back" =>
          /\ call.ret = "Ok"
          /\ registers = call.was.registers
          /\ pc = call.was.pc
          /\ npc = call.was.npc
    /\ (call.op = "write_back" /\ AtStop) =>
          step(Emu).trace[1].from = call.was.npc

\* C36 scenario: the registers were written back as read at a stop after a
\* jal x1,+8 at the entry: the next pc was the target and is now the entry
\* again
C36_next_pc_moved_back ==
    /\ call.op = "write_back"
    /\ call.ret = "Ok"
    /\ registers = call.was.registers
    /\ registers[1] = wrapping_add(memory_base, U64(4))
    /\ pc = memory_base
    /\ call.was.npc = wrapping_add(memory_base, U64(8))
    /\ npc = memory_base

\* what holds of the pair: the general registers and pc are as they were, and
\* the next pc is pc: the next step runs the instruction at pc again
RegistersWrittenBack ==
    /\ call.op = "write_back" =>
          /\ call.ret = "Ok"
          /\ registers = call.was.registers
          /\ pc = call.was.pc
          /\ npc = call.was.pc
    /\ (call.op = "write_back" /\ AtStop) =>
          step(Emu).trace[1].from = call.was.pc

---------------------------------------------------------------------------
(* Hardware watchpoints over ranges that overlap *)

\* the ranges the debugger watches: they start at 0x80000010 or two bytes
\* later and are two or four bytes long
WatchBases == {wrapping_add(memory_base, U64(16)), wrapping_add(memory_base, U64(18))}
WatchSpans == {2, 4}

\* the addresses of addr..addr+len
RangeOf(addr, len) == {wrapping_add(addr, U64(k)) : k \in 0..(len - 1)}

\* the record of the last call: the operation and its range, what it
\* returned, the watch set it found, and the ranges the debugger had inserted
\* and not removed before the call (inserted) and after it (kept)
WatchCall(op, addr, len, ret, before, inserted, kept) ==
    [op |-> op, addr |-> addr, len |-> len, ret |-> ret, before |-> before,
     inserted |-> inserted, kept |-> kept]

\* the debugger is attached and nothing is watched
WatchInit ==
    /\ registers = [r \in 0..31 |-> Zero64]
    /\ pc = memory_base
    /\ npc = memory_base
    /\ data = Image(<<>>)
    /\ mmio_regions = <<UartRegion>>
    /\ is_last_mmio = FALSE
    /\ exec_state = "Idle"
    /\ exec_mode = Continue
    /\ event = EventNone
    /\ execption = NoException
    /\ event_list = RingBuffer_new(EventListSize)
    /\ breakpoints = {}
    /\ watchpoints = {}
    /\ cache_capacity = 0
    /\ cache = {}
    /\ config = InstDecoderArgs(FALSE, FALSE, FALSE)
    /\ ref_emu = NoReference
    /\ gdb = [phase |-> "stopped", cnt |-> 0, delay_cycles |-> 0]
    /\ stop = NoStop
    /\ call = WatchCall("new", Zero64, 0, TRUE, {}, {}, {})

\* a watchpoint call returned r ([emu, ret])
WatchReturns(op, addr, len, r, kept) ==
    /\ Becomes(r.emu)
    /\ call' = WatchCall(op, addr, len, r.ret, watchpoints, call.kept, kept)
    /\ UNCHANGED <<gdb, stop>>

\* GDB inserts a watchpoint on addr..addr+len
InsertWatchpoint(addr, len) ==
    WatchReturns("add_hw_watchpoint", addr, len, add_hw_watchpoint(Emu, addr, len),
                 call.kept \cup {<<addr, len>>})

\* GDB removes the watchpoint on addr..addr+len
DeleteWatchpoint(addr, len) ==
    WatchReturns("remove_hw_watchpoint", addr, len,
                 remove_hw_watchpoint(Emu, addr, len), call.kept \ {<<addr, len>>})

WatchNext ==
    \/ \E addr \in WatchBases, len \in WatchSpans : InsertWatchpoint(addr, len)
    \/ \E addr \in WatchBases, len \in WatchSpans : DeleteWatchpoint(addr, len)

SpecWatch == WatchInit /\ [][WatchNext]_vars

\* C37: remove_hw_watchpoint(base, len) that returns false leaves the
\* watchpoint set unchanged: no address of [base, base+len) is removed when
\* some address of the range was not watched
C37_failed_remove_changes_nothing ==
    (call.op = "remove_hw_watchpoint" /\ ~call.ret) => watchpoints = call.before

\* C37 scenario: the first two bytes of a four-byte range were watched; the
\* removal of the range has returned false and they are watched no more
C37_removed_in_part ==
    /\ call.op = "remove_hw_watchpoint"
    /\ ~call.ret
    /\ call.len = 4
    /\ call.before = RangeOf(call.addr, 2)
    /\ watchpoints = {}

\* what holds of remove_hw_watchpoint: it returns true iff the whole range was
\* watched, and it removes the addresses of the range up to the first that
\* was not watched, and no other
RemovesUpToFirstUnwatched ==
    call.op = "remove_hw_watchpoint" =>
        /\ call.ret <=> RangeOf(call.addr, call.len) \subseteq call.before
        /\ watchpoints \subseteq call.before
        /\ call.before \ watchpoints \subseteq RangeOf(call.addr, call.len)
        /\ call.ret => watchpoints = call.before \ RangeOf(call.addr, call.len)
        /\ \A k \in 0..(call.len - 1) :
              wrapping_add(call.addr, U64(k)) \in watchpoints =>
                  \E j \in 0..k : wrapping_add(call.addr, U64(j)) \notin call.before

\* every address of every range of the set is watched in the watch set
AllWatched(ranges, watched) ==
    \A r \in ranges : RangeOf(r[1], r[2]) \subseteq watched

\* C38: watchpoints added with overlapping ranges are independent: after
\* add_hw_watchpoint(A), add_hw_watchpoint(B) and remove_hw_watchpoint(A),
\* every address of range B is still in the watch set
C38_overlapping_ranges_independent ==
    (/\ call.op = "remove_hw_watchpoint"
     /\ <<call.addr, call.len>> \in call.inserted
     /\ AllWatched(call.inserted, call.before)) =>
        AllWatched(call.kept, watchpoints)

\* C38 scenario: two ranges that share two bytes were inserted, the first
\* was removed with success, and the shared bytes of the second are watched
\* no more
C38_shared_bytes_removed ==
    /\ call.op = "remove_hw_watchpoint"
    /\ call.ret
    /\ call.len = 4
    /\ call.inserted = {<<call.addr, 4>>, <<wrapping_add(call.addr, U64(2)), 4>>}
    /\ call.before = RangeOf(call.addr, 6)
    /\ call.kept = {<<wrapping_add(call.addr, U64(2)), 4>>}
    /\ watchpoints = RangeOf(wrapping_add(call.addr, U64(4)), 2)

\* what holds of add_hw_watchpoint, and of ranges that share no address: the
\* range inserted is watched and nothing is lost, and the removal of an
\* inserted range keeps every inserted range that is disjoint from it
DisjointRangesIndependent ==
    /\ call.op = "add_hw_watchpoint" =>
          /\ call.ret
          /\ watchpoints = call.before \cup RangeOf(call.addr, call.len)
    /\ (/\ call.op = "remove_hw_watchpoint"
        /\ <<call.addr, call.len>> \in call.inserted
        /\ AllWatched(call.inserted, call.before)) =>
          AllWatched({r \in call.kept :
                         RangeOf(r[1], r[2]) \cap RangeOf(call.addr, call.len) = {}},
                     watchpoints)

---------------------------------------------------------------------------
(* The poll of the connection when no byte is waiting *)

\* C39: in Continue mode with no byte pending on the connection,
\* wait_for_stop_reason never returns IncomingData and never performs a
\* (blocking) read on the connection: it keeps executing instructions until
\* an event, an error or End, however many steps that takes
C39_no_read_without_byte ==
    [][(/\ exec_mode = Continue
        /\ gdb.phase \in {"running", "reading"}
        /\ call.conn = <<>>) =>
          /\ gdb'.phase # "reading"
          /\ stop'.reason # "IncomingData"]_vars

\* C39 scenario: no byte has arrived since the target was resumed, the loop
\* has stepped until delay_cycles reached the interval, and it is now blocked
\* in conn.read()
C39_blocked_in_read ==
    /\ exec_mode = Continue
    /\ gdb.phase = "reading"
    /\ gdb.delay_cycles = PollInterval
    /\ call.conn = <<>>
    /\ call.op = "wait_for_stop_reason"
    /\ stop = NoStop

\* what holds of the loop with no byte waiting: it steps while delay_cycles is
\* below the interval, and IncomingData is returned only with a byte that was
\* on the connection
StepsBelowInterval ==
    [][/\ (/\ gdb.phase = "running"
           /\ call.conn = <<>>
           /\ ~poll_due(gdb.delay_cycles)) =>
             /\ gdb'.phase # "reading"
             /\ stop'.reason # "IncomingData"
       /\ (stop'.reason = "IncomingData" /\ stop.reason # "IncomingData") =>
             /\ call.conn # <<>>
             /\ stop'.addr = U64(Head(call.conn))]_vars

---------------------------------------------------------------------------
(* Steps that fail at the fetch or at the decode *)

\* at most MaxFaultSteps steps are made
MaxFaultSteps == 2

\* the programs: an illegal word, a loop that counts down, a load from an
\* unmapped address
FaultPrograms == {Prog_illegal, Prog_countdown, Prog_load_unmapped}

\* where the next pc points: the first two words of RAM, the last two bytes
\* of RAM, an unmapped address, and the data and status registers of the UART
FaultPcs ==
    {memory_base, wrapping_add(memory_base, U64(4)),
     wrapping_add(memory_base, U64(memory_size - 2)), Zero64,
     UartRegion.base, wrapping_add(UartRegion.base, U64(4))}

\* the record of the last step_internal: how many were made, what it
\* returned, how far it got, and the emulator it started from
FaultCall(n, ret, stage, before) ==
    [n |-> n, ret |-> ret, stage |-> stage, before |-> before]

\* an emulator about to step: the next pc was set by a jump or by the
\* debugger, the decoder has a cache or none, the C extension is on or off
FaultInit ==
    /\ registers = [r \in 0..31 |-> IF r = 1 THEN U64(2) ELSE Zero64]
    /\ pc = memory_base
    /\ npc \in FaultPcs
    /\ \E prog \in FaultPrograms : data = Image(prog)
    /\ mmio_regions = <<UartRegion>>
    /\ is_last_mmio = FALSE
    /\ exec_state = "Running"
    /\ exec_mode = Continue
    /\ event = EventNone
    /\ execption = NoException
    /\ event_list = RingBuffer_new(EventListSize)
    /\ breakpoints = {}
    /\ watchpoints = {}
    /\ cache_capacity \in {0, 1}
    /\ cache = {}
    /\ \E enable_c \in BOOLEAN : config = InstDecoderArgs(FALSE, FALSE, enable_c)
    /\ ref_emu = NoReference
    /\ gdb = [phase |-> "detached", cnt |-> 0, delay_cycles |-> 0]
    /\ stop = NoStop
    /\ call = FaultCall(0, "Ok", "new", Emu)

\* step_internal() returned r
FaultStepped(r) ==
    /\ Becomes(r.emu)
    /\ call' = FaultCall(call.n + 1, r.ret, r.entry.stage, Emu)
    /\ UNCHANGED <<gdb, stop>>

\* Emulator::step_internal
StepInternal ==
    /\ call.n < MaxFaultSteps
    /\ call.ret # "Panic"
    /\ FaultStepped(step_internal(Emu))

FaultNext == StepInternal

SpecFault == FaultInit /\ [][FaultNext]_vars

\* the last step failed at the fetch or at the decode
FailedEarly == call.stage \in {"fetch", "decode"}

FetchedFromDevice ==
    /\ call.stage # "fetch"
    /\ find_mmio_region(call.before.mmio_regions, call.before.npc) # 0

LatchedByFetch ==
    /\ call.stage = "decode"
    /\ call.ret = "Err"
    /\ call.before.npc = wrapping_add(UartRegion.base, U64(4))
    /\ ~call.before.is_last_mmio
    /\ is_last_mmio
===========================================================================
